---- MODULE Spec2Model ----
(***************************************************************************)
(* Model of johnstonjr/allergy-recipe-finder.                              *)
(*                                                                         *)
(*   ingredients.py : get_functional_tags, clean_ingredient_name,          *)
(*                    find_best_meal (the meal combination engine)         *)
(*   app.py         : check_recipe_allergens, check_recipe_dietary,        *)
(*                    generate_enhanced_recipe                             *)
(*                                                                         *)
(* Text is modelled by TLA+ strings, character by character (Len, SubSeq   *)
(* and \o act on strings in TLC).  Quantities are fixed point integers:    *)
(* a cost is counted in thousandths of a currency unit, protein and fat in *)
(* hundredths of a gram, so round(x, 2) of a cost and round(x, 1) of a     *)
(* mass are both "round to a multiple of 10".  The sums are exact; the     *)
(* quantities of the pool are chosen so that no sum lies on a rounding     *)
(* tie, where the binary value of a float would decide.                    *)
(***************************************************************************)
EXTENDS Integers, Sequences, FiniteSets, TLC

(***************************************************************************)
(* Python str primitives used by the source.                               *)
(***************************************************************************)
UpperLetters == "ABCDEFGHIJKLMNOPQRSTUVWXYZ"
LowerLetters == "abcdefghijklmnopqrstuvwxyz"

\* the i-th character of s, as a string of length 1
CharAt(s, i) == SubSeq(s, i, i)

\* s[i:] of Python, i counted from 0
DropFirst(s, i) == SubSeq(s, i + 1, Len(s))

\* c.lower() for one character
LowerChar(c) ==
    IF \E i \in 1..26 : CharAt(UpperLetters, i) = c
    THEN CharAt(LowerLetters, CHOOSE i \in 1..26 : CharAt(UpperLetters, i) = c)
    ELSE c

\* c.upper() for one character
UpperChar(c) ==
    IF \E i \in 1..26 : CharAt(LowerLetters, i) = c
    THEN CharAt(UpperLetters, CHOOSE i \in 1..26 : CharAt(LowerLetters, i) = c)
    ELSE c

RECURSIVE LowerOf(_)
\* s.lower()
LowerOf(s) ==
    IF Len(s) = 0 THEN ""
    ELSE LowerChar(CharAt(s, 1)) \o LowerOf(DropFirst(s, 1))

\* "k in s" on strings: k occurs in s as a substring
Contains(s, k) ==
    \E i \in 1..(Len(s) - Len(k) + 1) : SubSeq(s, i, i + Len(k) - 1) = k

RECURSIVE LStrip(_)
LStrip(s) ==
    IF Len(s) > 0 /\ CharAt(s, 1) = " " THEN LStrip(DropFirst(s, 1)) ELSE s

RECURSIVE RStrip(_)
RStrip(s) ==
    IF Len(s) > 0 /\ CharAt(s, Len(s)) = " "
    THEN RStrip(SubSeq(s, 1, Len(s) - 1)) ELSE s

\* s.strip()
Strip(s) == RStrip(LStrip(s))

RECURSIVE Remove(_, _)
\* s.replace(old, ""): occurrences are found left to right, without overlap
Remove(s, old) ==
    IF Len(s) < Len(old) THEN s
    ELSE IF SubSeq(s, 1, Len(old)) = old
         THEN Remove(DropFirst(s, Len(old)), old)
         ELSE CharAt(s, 1) \o Remove(DropFirst(s, 1), old)

RECURSIVE BeforeComma(_)
\* s.split(',')[0]
BeforeComma(s) ==
    IF Len(s) = 0 \/ CharAt(s, 1) = "," THEN ""
    ELSE CharAt(s, 1) \o BeforeComma(DropFirst(s, 1))

RECURSIVE Join(_, _)
\* sep.join(lines)
Join(sep, lines) ==
    IF Len(lines) = 0 THEN ""
    ELSE IF Len(lines) = 1 THEN lines[1]
    ELSE lines[1] \o sep \o Join(sep, Tail(lines))

(***************************************************************************)
(* The texts of the recipes: ingredient lines, titles, allergy tags.       *)
(***************************************************************************)
LinePool ==
    { "1 cup Milk", "2 tbsp BUTTER", "100g Cream Cheese", "Greek yogurt",
      "Whey powder, casein free", "1 Chicken breast", "200g Salmon", "2 cups Rice" }
TitlePool == { "Chicken Pie", "Salmon Rice", "Rice Pudding" }
TagPool == { "dairy", "Dairy", "gluten", "Salmon", "shellfish" }

\* LowerOf on these texts, evaluated once
LowerOfPool == [s \in LinePool \cup TitlePool \cup TagPool |-> LowerOf(s)]

Lower(s) == IF s \in DOMAIN LowerOfPool THEN LowerOfPool[s] ELSE LowerOf(s)

(***************************************************************************)
(* The catalog.  An ingredient is a record; the key 'functional_tags',     *)
(* which a dict of the catalog has only after find_best_meal attached it,  *)
(* is the field functional_tags: <<>> while the key is absent, <<tags>>    *)
(* once it is set.                                                         *)
(***************************************************************************)
Ingredient(name, cost, protein, carbs, fat, tags) ==
    [name |-> name, cost_per_100g |-> cost, protein_g |-> protein,
     carbs_g |-> carbs, fat_g |-> fat, allergy_tags |-> tags,
     functional_tags |-> <<>>]

\* Ingredients a catalog is drawn from: the four of the worked example, a
\* dish that is both Starch and Protein, costed and weighed more finely than
\* the results are rounded, and a name that is nothing but a noise term.
\* No sum of these lies on a rounding tie (every last digit is even).
Pool ==
    << Ingredient("Rice", 100, 710, 8000, 70, {}),
       Ingredient("Egg", 250, 1260, 110, 950, {"egg"}),
       Ingredient("Chicken", 750, 3100, 0, 360, {"poultry", "meat"}),
       Ingredient("Tomato", 80, 90, 390, 20, {}),
       Ingredient("Rice with chicken, cooked", 516, 1286, 2224, 438, {"poultry"}),
       Ingredient(", raw", 200, 0, 0, 0, {}) >>

\* Ingredients of catalogs whose combinations come to equal sort keys: Onion
\* costs and weighs what Tomato does, and Garlic so little that the rounded
\* totals of a combination are the same with it and without it.
TiePool ==
    << Ingredient("Rice", 100, 710, 8000, 70, {}),
       Ingredient("Tomato", 80, 90, 390, 20, {}),
       Ingredient("Onion", 80, 90, 390, 20, {}),
       Ingredient("Garlic", 2, 2, 4, 0, {}) >>

PoolNames == { Pool[i].name : i \in DOMAIN Pool } \cup { TiePool[i].name : i \in DOMAIN TiePool }

(***************************************************************************)
(* ingredients.py: functional tags and name clean-up.                      *)
(***************************************************************************)
ProteinWords == {"chicken", "turkey", "fish", "pork", "beef", "lamb", "egg", "tofu", "seitan"}
StarchWords  == {"rice", "flour", "pasta", "noodle", "bread", "oats", "potato", "quinoa", "starch"}
FatDairyWords == {"oil", "butter", "cream", "cheese", "fat", "margarine"}
ProduceWords == {"tomato", "onion", "garlic", "carrot", "pepper", "broccoli", "spinach", "fruit"}

AnyWordIn(words, text) == \E w \in words : Contains(text, w)

FunctionalTagsOf(ingredient_name) ==
    LET name_lower == Lower(ingredient_name)
        tags == (IF AnyWordIn(ProteinWords, name_lower) THEN {"Protein"} ELSE {})
           \cup (IF AnyWordIn(StarchWords, name_lower) THEN {"Starch"} ELSE {})
           \cup (IF AnyWordIn(FatDairyWords, name_lower) THEN {"Fat/Dairy"} ELSE {})
           \cup (IF AnyWordIn(ProduceWords, name_lower) THEN {"Produce"} ELSE {})
    IN  IF tags = {} THEN {"Other"} ELSE tags

\* FunctionalTagsOf on the names of the pool, evaluated once
FunctionalTagsOfPool == [n \in PoolNames |-> FunctionalTagsOf(n)]

get_functional_tags(ingredient_name) ==
    IF ingredient_name \in PoolNames THEN FunctionalTagsOfPool[ingredient_name]
    ELSE FunctionalTagsOf(ingredient_name)

replacements ==
    <<"raw", "unprepared", "prepared", "unenriched", "cooked", "generic",
      "canned", "usda", "frozen">>

RECURSIVE StripTerms(_, _)
\* the loop of clean_ingredient_name over replacements[i..]
StripTerms(cleaned_name, i) ==
    IF i > Len(replacements) THEN cleaned_name
    ELSE LET term == replacements[i]
         IN  StripTerms(Remove(Remove(Remove(cleaned_name, ", " \o term),
                                      " " \o term),
                               "," \o term),
                        i + 1)

\* clean_ingredient_name raises IndexError at cleaned_name[0] when nothing is
\* left of the name after the noise terms are stripped
NothingLeft(name) == Len(StripTerms(Strip(name), 1)) = 0

\* lines 75-80, for a name of which something is left
CleanedName(name) ==
    LET stripped == StripTerms(Strip(name), 1)
        capital  == UpperChar(CharAt(stripped, 1)) \o Strip(DropFirst(stripped, 1))
    IN  Strip(BeforeComma(capital))

\* NothingLeft and CleanedName on the names of the pool, evaluated once
CleanedPool ==
    [n \in PoolNames |-> [raises  |-> NothingLeft(n),
                          cleaned |-> IF NothingLeft(n) THEN "" ELSE CleanedName(n)]]

CleanRaises(name) ==
    IF name \in PoolNames THEN CleanedPool[name].raises ELSE NothingLeft(name)

clean_ingredient_name(name) ==
    IF name \in PoolNames THEN CleanedPool[name].cleaned ELSE CleanedName(name)

(***************************************************************************)
(* ingredients.py: find_best_meal.                                         *)
(***************************************************************************)
\* round(x, 2) of a cost in thousandths, round(x, 1) of a mass in hundredths:
\* the nearest multiple of 10, a tie going to the even multiple
Round10(x) ==
    LET r  == x % 10
        lo == x - r
    IN  IF 2 * r < 10 THEN lo
        ELSE IF 2 * r > 10 THEN lo + 10
        ELSE IF (lo \div 10) % 2 = 0 THEN lo ELSE lo + 10

\* an ingredient dropped only when all of its allergy tags are excluded
IsSafeUnlessAll(ingredient, excluded_tags) ==
    \/ ingredient.allergy_tags = {}
    \/ \E tag \in ingredient.allergy_tags : tag \notin excluded_tags

\* line 98: no allergy tag of the ingredient is an excluded tag
IsSafe(ingredient, excluded_tags) ==
    ~ \E tag \in ingredient.allergy_tags : tag \in excluded_tags

\* line 100: ingredient['functional_tags'] = get_functional_tags(name)
AttachTags(ingredient) ==
    [ingredient EXCEPT !.functional_tags = <<get_functional_tags(ingredient.name)>>]

RECURSIVE SafetyWalkRemoving(_, _, _, _)
\* the safety filter with an in-place removal of the unsafe ingredients: the
\* list shrinks under the loop, which then steps over the next ingredient
SafetyWalkRemoving(data, excluded_tags, i, safe_ingredients) ==
    IF i > Len(data) THEN [data |-> data, safe_ingredients |-> safe_ingredients]
    ELSE IF IsSafe(data[i], excluded_tags)
         THEN SafetyWalkRemoving([data EXCEPT ![i] = AttachTags(@)], excluded_tags,
                                 i + 1, Append(safe_ingredients, AttachTags(data[i])))
         ELSE SafetyWalkRemoving(SubSeq(data, 1, i - 1) \o SubSeq(data, i + 1, Len(data)),
                                 excluded_tags, i + 1, safe_ingredients)

RECURSIVE SafetyWalk(_, _, _, _)
\* lines 96-101, from data[i] on: a retained ingredient gets its functional
\* tags attached in place (the dict in data and the one in safe_ingredients
\* are the same object) and is appended to safe_ingredients
SafetyWalk(data, excluded_tags, i, safe_ingredients) ==
    IF i > Len(data) THEN [data |-> data, safe_ingredients |-> safe_ingredients]
    ELSE IF IsSafe(data[i], excluded_tags)
         THEN SafetyWalk([data EXCEPT ![i] = AttachTags(@)], excluded_tags,
                         i + 1, Append(safe_ingredients, AttachTags(data[i])))
         ELSE SafetyWalk(data, excluded_tags, i + 1, safe_ingredients)

RECURSIVE CombosFrom(_, _, _)
\* the increasing k-tuples over lo..n, in lexicographic order
CombosFrom(lo, n, k) ==
    IF k = 0 THEN << <<>> >>
    ELSE IF lo > n THEN <<>>
    ELSE LET rest == CombosFrom(lo + 1, n, k - 1)
         IN  [j \in 1..Len(rest) |-> <<lo>> \o rest[j]] \o CombosFrom(lo + 1, n, k)

\* itertools.combinations(range(1, n + 1), k)
combinations(n, k) == CombosFrom(1, n, k)

\* a loop over the sizes that starts at single ingredients
FirstSizeOne == 2 - 1

\* line 107: range(2, max_ingredients + 1) starts at 2
FirstSize == 2

RECURSIVE CombosOneOver(_, _, _)
\* a loop over the sizes that goes one size past max_ingredients
CombosOneOver(n, k, max_ingredients) ==
    IF k > max_ingredients + 1 THEN <<>>
    ELSE combinations(n, k) \o CombosOneOver(n, k + 1, max_ingredients)

RECURSIVE CombosUpTo(_, _, _)
\* lines 107-108: the combinations in the order the two loops visit them,
\* num_ingredients from k to max_ingredients
CombosUpTo(n, k, max_ingredients) ==
    IF k > max_ingredients THEN <<>>
    ELSE combinations(n, k) \o CombosUpTo(n, k + 1, max_ingredients)

RECURSIVE PalatabilityWalk(_, _, _, _)
\* lines 115-124, from combo[i] on; is_duplicate ends the loop (break)
PalatabilityWalk(combo, i, macro_tags_in_combo, functional_tags_in_combo) ==
    IF i > Len(combo)
    THEN [is_duplicate |-> FALSE, functional_tags_in_combo |-> functional_tags_in_combo]
    ELSE LET item_tags == combo[i].functional_tags[1]
         IN  IF "Starch" \in item_tags
             THEN IF "Starch" \in macro_tags_in_combo
                  THEN [is_duplicate |-> TRUE,
                        functional_tags_in_combo |-> functional_tags_in_combo]
                  ELSE PalatabilityWalk(combo, i + 1, macro_tags_in_combo \cup {"Starch"},
                                        functional_tags_in_combo \cup item_tags)
             ELSE IF "Protein" \in item_tags
             THEN IF "Protein" \in macro_tags_in_combo
                  THEN [is_duplicate |-> TRUE,
                        functional_tags_in_combo |-> functional_tags_in_combo]
                  ELSE PalatabilityWalk(combo, i + 1, macro_tags_in_combo \cup {"Protein"},
                                        functional_tags_in_combo \cup item_tags)
             ELSE PalatabilityWalk(combo, i + 1, macro_tags_in_combo,
                                   functional_tags_in_combo \cup item_tags)

RECURSIVE SumOf(_, _)
\* sum(f(item) for item in combo), f given as the sequence of its values
SumOf(values, i) == IF i > Len(values) THEN 0 ELSE values[i] + SumOf(values, i + 1)

total_cost_of(combo)    == SumOf([i \in 1..Len(combo) |-> combo[i].cost_per_100g], 1)
total_protein_of(combo) == SumOf([i \in 1..Len(combo) |-> combo[i].protein_g], 1)
total_fat_of(combo)     == SumOf([i \in 1..Len(combo) |-> combo[i].fat_g], 1)

\* the thresholds without the protein floor
WithinCostAndFat(combo, max_cost, min_protein, max_fat) ==
    /\ total_cost_of(combo) <= max_cost
    /\ total_fat_of(combo) <= max_fat

\* lines 139-141: the thresholds, on the sums as computed (before rounding)
WithinLimits(combo, max_cost, min_protein, max_fat) ==
    /\ total_cost_of(combo) <= max_cost
    /\ total_protein_of(combo) >= min_protein
    /\ total_fat_of(combo) <= max_fat

\* lines 126-141: the combination survives rule A, rule B and the thresholds
Survives(combo, max_cost, min_protein, max_fat) ==
    LET walk == PalatabilityWalk(combo, 1, {}, {})
    IN  /\ ~walk.is_duplicate
        /\ ~(Cardinality(walk.functional_tags_in_combo) < 2)
        /\ WithinLimits(combo, max_cost, min_protein, max_fat)

\* lines 143-150: the entry appended to valid_meals.  The field combo is not
\* in the dict of the source: it keeps the tuple the entry was made from, so
\* that properties of the members of a returned combination can be stated.
MakeMeal(combo) ==
    [ingredients      |-> [i \in 1..Len(combo) |-> clean_ingredient_name(combo[i].name)],
     total_cost       |-> Round10(total_cost_of(combo)),
     total_protein_g  |-> Round10(total_protein_of(combo)),
     total_fat_g      |-> Round10(total_fat_of(combo)),
     num_ingredients  |-> Len(combo),
     diversity_score  |-> Cardinality(PalatabilityWalk(combo, 1, {}, {}).functional_tags_in_combo),
     combo            |-> combo]

\* line 144 raises IndexError when a member's cleaned name is empty
MakeMealRaises(combo) == \E i \in 1..Len(combo) : CleanRaises(combo[i].name)

RECURSIVE CollectValid(_, _, _, _, _, _, _)
\* lines 107-150 from the i-th visited combination on: valid_meals as built so
\* far, or the exception that leaves the function
CollectValid(safe_ingredients, combos, i, max_cost, min_protein, max_fat, valid_meals) ==
    IF i > Len(combos) THEN [raised |-> FALSE, valid_meals |-> valid_meals]
    ELSE LET combo == [j \in 1..Len(combos[i]) |-> safe_ingredients[combos[i][j]]]
         IN  IF ~Survives(combo, max_cost, min_protein, max_fat)
             THEN CollectValid(safe_ingredients, combos, i + 1, max_cost, min_protein,
                               max_fat, valid_meals)
             ELSE IF MakeMealRaises(combo)
             THEN [raised |-> TRUE, valid_meals |-> valid_meals]
             ELSE CollectValid(safe_ingredients, combos, i + 1, max_cost, min_protein,
                               max_fat, Append(valid_meals, MakeMeal(combo)))

\* a ranking by cost alone
KeyLessByCost(a, b) == a.total_cost < b.total_cost

\* line 157: the sort key of a is smaller than that of b
KeyLess(a, b) ==
    \/ a.diversity_score > b.diversity_score
    \/ /\ a.diversity_score = b.diversity_score
       /\ \/ a.total_protein_g > b.total_protein_g
          \/ /\ a.total_protein_g = b.total_protein_g
             /\ a.total_cost < b.total_cost

RECURSIVE UnstableSort(_, _, _)
\* a sort that is not stable: meals[i] goes in front of the sorted entries
\* whose key equals its own
UnstableSort(meals, i, sorted) ==
    IF i > Len(meals) THEN sorted
    ELSE LET n == Cardinality({j \in 1..Len(sorted) : KeyLess(sorted[j], meals[i])})
         IN  UnstableSort(meals, i + 1,
                          SubSeq(sorted, 1, n) \o <<meals[i]>> \o SubSeq(sorted, n + 1, Len(sorted)))

RECURSIVE StableSort(_, _, _)
\* list.sort: stable, so meals[i] goes behind every sorted entry whose key is
\* not greater than its own
StableSort(meals, i, sorted) ==
    IF i > Len(meals) THEN sorted
    ELSE LET n == Cardinality({j \in 1..Len(sorted) : ~KeyLess(meals[i], sorted[j])})
         IN  StableSort(meals, i + 1,
                        SubSeq(sorted, 1, n) \o <<meals[i]>> \o SubSeq(sorted, n + 1, Len(sorted)))

TopN == 5

\* the whole sorted list
TopAll(meals) == meals

\* line 160: valid_meals[:5]
Top(meals) == SubSeq(meals, 1, IF Len(meals) < TopN THEN Len(meals) ELSE TopN)

\* what a call leaves: kind "none" (return None), "list" (the list returned)
\* or "raise" (an exception left the function)
Returned(kind, meals) == [kind |-> kind, meals |-> meals]

\* find_best_meal: the value it returns and the catalog as the call leaves it
find_best_meal(data, max_cost, min_protein, max_fat, excluded_tags, max_ingredients) ==
    LET filtered == SafetyWalk(data, excluded_tags, 1, <<>>)
        safe     == filtered.safe_ingredients
        found    == CollectValid(safe, CombosUpTo(Len(safe), FirstSize, max_ingredients), 1,
                                 max_cost, min_protein, max_fat, <<>>)
    IN  [data |-> filtered.data,
         ret  |-> IF found.raised THEN Returned("raise", <<>>)
                  ELSE IF Len(found.valid_meals) = 0 THEN Returned("none", <<>>)
                  ELSE Returned("list", Top(StableSort(found.valid_meals, 1, <<>>)))]

(***************************************************************************)
(* app.py: the allergen and the dietary check of a recipe.                 *)
(***************************************************************************)
ALLERGY_KEYWORD_MAP ==
    [ legume |->
        {"bean", "beans", "lentil", "lentils", "pea", "peas", "chickpea",
         "chickpeas", "garbanzo", "soy", "soybean", "edamame", "black bean",
         "kidney bean", "pinto bean", "navy bean", "lima bean", "mung bean"},
      legumes |->
        {"bean", "beans", "lentil", "lentils", "pea", "peas", "chickpea",
         "chickpeas", "garbanzo", "soy", "soybean", "edamame", "black bean",
         "kidney bean", "pinto bean", "navy bean", "lima bean", "mung bean"},
      peanut |->
        {"peanut", "peanuts", "groundnut"},
      peanuts |->
        {"peanut", "peanuts", "groundnut"},
      treenut |->
        {"almond", "almonds", "walnut", "walnuts", "cashew", "cashews",
         "pecan", "pecans", "hazelnut", "hazelnuts", "pistachio",
         "pistachios", "brazil nut", "macadamia"},
      treenuts |->
        {"almond", "almonds", "walnut", "walnuts", "cashew", "cashews",
         "pecan", "pecans", "hazelnut", "hazelnuts", "pistachio",
         "pistachios", "brazil nut", "macadamia"},
      egg |->
        {"egg", "eggs", "mayonnaise", "mayo", "egg white", "egg yolk"},
      eggs |->
        {"egg", "eggs", "mayonnaise", "mayo", "egg white", "egg yolk"},
      dairy |->
        {"milk", "cheese", "butter", "yogurt", "cream", "whey", "casein"},
      wheat |->
        {"wheat", "flour", "bread", "pasta", "noodle", "noodles", "cereal"},
      gluten |->
        {"wheat", "flour", "bread", "pasta", "noodle", "noodles", "cereal",
         "barley", "rye", "oats"} ]

\* a lookup of the tag as typed, without lower-casing it
KeywordsOfTagAsTyped(tag) ==
    IF tag \in DOMAIN ALLERGY_KEYWORD_MAP THEN ALLERGY_KEYWORD_MAP[tag] ELSE {tag}

\* a lookup without the default: a tag that is no key has no keyword
KeywordsOfKnownTag(tag) ==
    LET tag_lower == Lower(tag)
    IN  IF tag_lower \in DOMAIN ALLERGY_KEYWORD_MAP
        THEN ALLERGY_KEYWORD_MAP[tag_lower] ELSE {}

\* lines 143-144: ALLERGY_KEYWORD_MAP.get(tag_lower, {tag_lower})
KeywordsOfTag(tag) ==
    LET tag_lower == Lower(tag)
    IN  IF tag_lower \in DOMAIN ALLERGY_KEYWORD_MAP
        THEN ALLERGY_KEYWORD_MAP[tag_lower] ELSE {tag_lower}

\* lines 141-144: keywords_to_check
KeywordsToCheck(tags) == UNION { KeywordsOfTag(tags[i]) : i \in DOMAIN tags }

\* check_recipe_allergens: FALSE when a keyword of an excluded tag occurs in
\* a lower-cased ingredient line
check_recipe_allergens(ingredient_lines, tags) ==
    IF Len(tags) = 0 THEN TRUE
    ELSE LET keywords_to_check == KeywordsToCheck(tags)
             ingredient_lower == [i \in DOMAIN ingredient_lines |-> Lower(ingredient_lines[i])]
         IN  ~ \E i \in DOMAIN ingredient_lines :
                   \E keyword \in keywords_to_check : Contains(ingredient_lower[i], keyword)

meat_poultry_tags ==
    {"meat", "poultry", "beef", "pork", "sausage", "chicken", "turkey", "lamb",
    "duck", "goose", "venison", "bison"}

fish_shellfish_tags ==
    {"fish", "shellfish", "salmon", "tuna", "cod", "haddock", "mackerel",
    "sardine", "anchovy", "trout", "bass", "snapper", "halibut", "tilapia",
    "sea bass", "shrimp", "prawn", "crab", "lobster", "scallop", "mussel",
    "oyster", "clam", "squid", "octopus", "crayfish", "caviar"}

\* line 160: what a vegetarian recipe must not mention
VegetarianBanned == meat_poultry_tags \cup fish_shellfish_tags

\* a pescetarian test that took over the vegetarian list
PescetarianBannedWithFish == meat_poultry_tags \cup fish_shellfish_tags

\* line 164: what a pescetarian recipe must not mention
PescetarianBanned == meat_poultry_tags

\* lines 160 and 164: any(tag in all_ingredients_lower or tag in title_lower ...)
Mentions(banned, title, ingredient_lines) ==
    LET all_ingredients_lower == Lower(Join(" ", ingredient_lines))
        title_lower == Lower(title)
    IN  \E tag \in banned :
            Contains(all_ingredients_lower, tag) \/ Contains(title_lower, tag)

\* a check that takes every preference it does not know for 'vegetarian'
check_recipe_dietary_strict(title, ingredient_lines, pref) ==
    IF pref = "none" THEN TRUE
    ELSE IF pref = "pescetarian"
         THEN ~Mentions(PescetarianBanned, title, ingredient_lines)
    ELSE ~Mentions(VegetarianBanned, title, ingredient_lines)

\* lines 153-167
check_recipe_dietary(title, ingredient_lines, pref) ==
    IF pref = "none" THEN TRUE
    ELSE IF pref = "vegetarian"
         THEN ~Mentions(VegetarianBanned, title, ingredient_lines)
    ELSE IF pref = "pescetarian"
         THEN ~Mentions(PescetarianBanned, title, ingredient_lines)
    ELSE TRUE

(***************************************************************************)
(* app.py: generate_enhanced_recipe.  One attempt posts the recipe to the  *)
(* text service; what comes back is one of the outcomes below, each with   *)
(* the status the response carries (0: no response object was made) and    *)
(* the exception the attempt ends with ("" when it ends with the return).  *)
(***************************************************************************)
max_retries == 3

Outcome(name, status_code, exception) ==
    [name |-> name, status_code |-> status_code, exception |-> exception]

Outcomes ==
    { Outcome("network error", 0, "ConnectionError"),     \* line 93 raises
      Outcome("timeout", 0, "Timeout"),                   \* line 93 raises
      Outcome("unauthorized", 401, "HTTPError"),          \* line 107 raises
      Outcome("rate limited", 429, "HTTPError"),          \* line 107 raises
      Outcome("server error", 500, "HTTPError"),          \* line 107 raises
      Outcome("body is no JSON", 200, "JSONDecodeError"), \* line 109 raises
      Outcome("no candidates", 200, "KeyError"),          \* line 110 raises
      Outcome("empty candidates", 200, "IndexError"),     \* line 110 raises
      Outcome("text is no JSON", 200, "JSONDecodeError"), \* line 111 raises
      Outcome("text is a JSON list", 200, "AttributeError"), \* line 116 raises
      Outcome("object without the key", 200, ""),         \* line 116 falls back
      Outcome("enhanced", 200, "") }

\* the classes of requests.exceptions among the exceptions above
RequestExceptions == {"ConnectionError", "Timeout", "HTTPError"}

\* a handler for the failures of the request alone
CaughtIfRequestException(exception) == exception \in RequestExceptions

\* line 118: except Exception catches every exception an attempt can end with
Caught(exception) == TRUE

\* what the model answers for "enhanced_instructions"
EnhancedChoices == { <<"Cook to 165F.", "Serve.">>, <<>> }

\* lines 114-117, 130-133, 135: the record returned
Enhanced(title, instructions) == [title |-> title, instructions |-> instructions]

RECURSIVE Pow2(_)
\* 2 ** n
Pow2(n) == IF n = 0 THEN 1 ELSE 2 * Pow2(n - 1)

(***************************************************************************)
(* api_utils.py: fetch_with_backoff.  One attempt is one call of the mock   *)
(* (use_mock) or one GET of the search URL; what comes back is one of the   *)
(* outcomes below.  response.json() of a body that is no JSON raises the    *)
(* JSONDecodeError of requests, which is a RequestException.                *)
(***************************************************************************)
MockOutcomes ==
    { Outcome("mock data", 200, ""),                      \* line 61 returns
      Outcome("mock unavailable", 503, "HTTPError") }     \* mock raises, line 56

RealOutcomes ==
    { Outcome("ok", 200, ""),                             \* line 82 returns
      Outcome("no content", 204, ""),                     \* line 85 raises nothing
      Outcome("server error", 500, "HTTPError"),          \* line 85 raises
      Outcome("timeout", 0, "Timeout"),                   \* line 77 raises
      Outcome("body is no JSON", 200, "requests.JSONDecodeError") } \* line 82 raises

FetchOutcomes(mock) == IF mock THEN MockOutcomes ELSE RealOutcomes

\* lines 59-61 and 80-82: the attempt reaches a return statement
FetchReturns(outcome) == outcome.exception = "" /\ outcome.status_code = 200

\* a handler for HTTPError alone
FetchCaughtIfHTTPError(exception) == exception = "HTTPError"

\* lines 87-88: the handler takes RequestException and its subclasses
FetchCaught(exception) ==
    exception \in {"HTTPError", "ConnectionError", "Timeout", "requests.JSONDecodeError",
                   "RequestException"}

\* line 97: delay = 2 ** (attempt - 1)
BackoffDelay(k) == Pow2(k - 1)

\* what fetch_with_backoff did, in order: its attempts and its sleeps
AttemptEvent(k, outcome) == [event |-> "attempt", attempt |-> k, outcome |-> outcome, delay |-> 0]
SleepEvent(k, delay) == [event |-> "sleep", attempt |-> k, outcome |-> "", delay |-> delay]

(***************************************************************************)
(* recipe_utils.py: what TheMealDB answers and what the two fetches make   *)
(* of it.  A value that may be null is a sequence: <<>> for null (None),   *)
(* <<s>> for the string s.                                                 *)
(***************************************************************************)
RECURSIVE Split(_, _)
\* s.split(sep)
Split(s, sep) ==
    IF Len(s) < Len(sep) THEN <<s>>
    ELSE LET hit == { i \in 1..(Len(s) - Len(sep) + 1) : SubSeq(s, i, i + Len(sep) - 1) = sep }
         IN  IF hit = {} THEN <<s>>
             ELSE LET i == CHOOSE j \in hit : \A k \in hit : j <= k
                  IN  <<SubSeq(s, 1, i - 1)>> \o Split(SubSeq(s, i + Len(sep), Len(s)), sep)

\* a meal of TheMealDB; pairs[i] is <<strMeasure(i), strIngredient(i)>>
Meal(idMeal, strMeal, strInstructions, pairs) ==
    [idMeal |-> idMeal, strMeal |-> strMeal, strInstructions |-> strInstructions,
     strMealThumb |-> IF idMeal = "" THEN "" ELSE "/images/" \o idMeal \o ".jpg",
     pairs |-> pairs]

\* the meals the server knows, in the order it lists them: the sixth is
\* listed without an id, the fifth has an ingredient without a measure, the
\* fourth a blank ingredient before its last one
BaseMeals ==
    << Meal("1", <<"Chicken Pie">>, <<"Fry the chicken.\r\nBake.">>,
            << << <<"1">>, <<"Chicken breast">> >>, << <<"2 tbsp ">>, <<"BUTTER">> >> >>),
       Meal("2", <<"Tomato Rice">>, <<"Boil the rice.">>,
            << << <<"2 cups">>, <<"Rice">> >>, << <<"1">>, <<" Tomato">> >> >>),
       Meal("3", <<"Salmon Rice">>, <<"">>,
            << << <<"200g">>, <<"Salmon">> >>, << <<"2 cups">>, <<"Rice">> >> >>),
       Meal("4", <<"Rice Pudding">>, <<"Simmer.\r\nCool.\r\n">>,
            << << <<"2 cups">>, <<"Rice">> >>, << <<"1 cup">>, <<"Milk">> >>,
               << <<" ">>, <<" ">> >>, << <<"1">>, <<"Chicken">> >> >>),
       Meal("5", <<"Yogurt Bowl">>, <<"Stir.">>,
            << << <<"1 cup">>, <<"Rice">> >>, << <<>>, <<"Greek yogurt">> >> >>),
       Meal("", <<"Unlisted">>, <<"">>, <<>>) >>

\* a meal without a title, and one without instructions
UntitledMeal ==
    Meal("90", <<>>, <<"Boil the rice.">>,
         << << <<"2 cups">>, <<"Rice">> >>, << <<"1">>, <<"Tomato">> >> >>)
NoInstructionsMeal ==
    Meal("91", <<"Plain Rice">>, <<>>, << << <<"2 cups">>, <<"Rice">> >> >>)

\* the i-th meal of the server's list: the base meals over and over, each
\* round with ids of its own
MealAt(i) ==
    LET base == BaseMeals[((i - 1) % Len(BaseMeals)) + 1]
    IN  IF base.idMeal = "" THEN base
        ELSE Meal(ToString(52770 + i), base.strMeal, base.strInstructions, base.pairs)

RECURSIVE IngredientLines(_, _, _)
\* lines 60-73 from pair i on: the lines built, or the AttributeError of
\* measure.strip() on a measure that is null
IngredientLines(pairs, i, ingredients) ==
    IF i > Len(pairs) \/ i > 20 THEN [raised |-> FALSE, ingredients |-> ingredients]
    ELSE LET measure == pairs[i][1]
             ingredient == pairs[i][2]
         IN  IF ingredient = <<>> \/ Strip(ingredient[1]) = ""
             THEN [raised |-> FALSE, ingredients |-> ingredients]
             ELSE IF measure = <<>>
             THEN [raised |-> TRUE, ingredients |-> ingredients]
             ELSE IngredientLines(pairs, i + 1,
                      Append(ingredients, Strip(measure[1]) \o " " \o Strip(ingredient[1])))

\* what get_recipe_details returns: found is FALSE for None
Details(found, id, title, instructions, ingredients, thumbnail) ==
    [found |-> found, id |-> id, title |-> title, instructions |-> instructions,
     ingredients |-> ingredients, thumbnail |-> thumbnail]

None == Details(FALSE, "", <<>>, <<>>, <<>>, "")

\* lines 57-81: the dict made of the meal, None when an exception is caught
DetailsOfMeal(meal) ==
    LET built == IngredientLines(meal.pairs, 1, <<>>)
    IN  IF built.raised \/ meal.strInstructions = <<>> THEN None
        ELSE Details(TRUE, meal.idMeal, meal.strMeal, Split(meal.strInstructions[1], "\r\n"),
                     built.ingredients, meal.strMealThumb)

MaxMeals == 11

\* the list the server has for an ingredient
ServerList == [i \in 1..MaxMeals |-> MealAt(i)]

\* a shorter list, with the meals that lack a title and instructions
OddList == <<UntitledMeal, NoInstructionsMeal, MealAt(2)>>

ServerMeals == { MealAt(i) : i \in 1..MaxMeals } \cup {UntitledMeal, NoInstructionsMeal}

\* DetailsOfMeal on the meals of the server, evaluated once
DetailsOfServerMeals == [meal \in ServerMeals |-> DetailsOfMeal(meal)]

\* the answer to one GET: kind is "meals" (a list of meals, in meals), "null"
\* ('meals': null), or the failure of the request
Answer(kind, meals) == [kind |-> kind, meals |-> meals]

\* the failures of a request that are transient failures of the network
NetworkFailures == {"ConnectionError", "Timeout"}

\* the ways a GET and the reading of its body fail: the network, a status
\* of 4xx or 5xx, a body that is no JSON
RequestFailures == NetworkFailures \cup {"HTTPError", "JSONDecodeError"}

\* lines 48-89, on the answer to the GET of lookup.php
get_recipe_details(answer) ==
    IF answer.kind \in RequestFailures THEN None
    ELSE IF answer.kind = "null" \/ Len(answer.meals) = 0 THEN None
    ELSE IF answer.meals[1] \in ServerMeals THEN DetailsOfServerMeals[answer.meals[1]]
    ELSE DetailsOfMeal(answer.meals[1])

\* line 31: meals[:10]
SearchLimit == 10

\* lines 19-38, on the answer to the GET of filter.php: the list returned,
\* or RecipeAPIError raised
search_recipes_by_ingredient(answer) ==
    IF answer.kind \in RequestFailures THEN [raised |-> TRUE, meals |-> <<>>]
    ELSE IF answer.kind = "null" \/ Len(answer.meals) = 0 THEN [raised |-> FALSE, meals |-> <<>>]
    ELSE [raised |-> FALSE,
          meals |-> SubSeq(answer.meals, 1,
                           IF Len(answer.meals) < SearchLimit THEN Len(answer.meals)
                           ELSE SearchLimit)]

(***************************************************************************)
(* app.py: suggest_recipe.  A JSON value is its type and its text; the     *)
(* body of a request is what request.get_json() makes of it (type "absent" *)
(* when there is no JSON to read) and, for an object, the values of the    *)
(* three keys the handler reads (type "absent" for a key that is missing). *)
(***************************************************************************)
JsonValue(type, text) == [type |-> type, text |-> text]

Absent == JsonValue("absent", "")
JsonString(text) == JsonValue("string", text)

\* bool(v) of Python
Truthy(v) ==
    CASE v.type = "string"  -> v.text # ""
      [] v.type = "number"  -> v.text # "0"
      [] v.type = "boolean" -> v.text = "true"
      [] v.type = "list"    -> v.text # "[]"
      [] v.type = "object"  -> v.text # "{}"
      [] OTHER              -> FALSE

Body(json, allergies, available, preference) ==
    [json |-> json, additional_allergies |-> allergies,
     available_ingredients |-> available, dietary_preference |-> preference]

\* a body that is no object
ValueBody(json) == Body(json, Absent, Absent, Absent)

\* a body that is an object with these values of the three keys
ObjectBody(allergies, available, preference) ==
    Body(JsonValue("object",
                   IF allergies = Absent /\ available = Absent /\ preference = Absent
                   THEN "{}" ELSE "{...}"),
         allergies, available, preference)

\* data.get(key, default)
Get(value, default) == IF value.type = "absent" THEN JsonString(default) ELSE value

RECURSIVE StrippedLowered(_, _)
\* line 182: [a.strip().lower() for a in parts[i:] if a.strip()]
StrippedLowered(parts, i) ==
    IF i > Len(parts) THEN <<>>
    ELSE IF Strip(parts[i]) = "" THEN StrippedLowered(parts, i + 1)
    ELSE <<LowerOf(Strip(parts[i]))>> \o StrippedLowered(parts, i + 1)

\* lines 176-185: what the handler reads from the body, ok FALSE when it
\* answers 400
Parsed(ok, allergies, available, preference) ==
    [ok |-> ok, user_allergies |-> allergies, available_ingredients_str |-> available,
     dietary_preference |-> preference]

BadBody == Parsed(FALSE, <<>>, Absent, "none")

\* lines 176-185
ParseBody(posted) ==
    IF posted.json.type = "absent" THEN BadBody          \* get_json: None, or it raises
    ELSE IF ~Truthy(posted.json) THEN BadBody            \* line 178
    ELSE IF posted.json.type # "object" THEN BadBody     \* line 179: no attribute get
    ELSE LET additional_allergies == Get(posted.additional_allergies, "")
             available == Get(posted.available_ingredients, "")
             preference == Get(posted.dietary_preference, "none")
         IN  IF preference.type # "string" THEN BadBody            \* line 181
             ELSE IF additional_allergies.type # "string" THEN BadBody  \* line 182
             ELSE Parsed(TRUE, StrippedLowered(Split(additional_allergies.text, ","), 1),
                         available, LowerOf(preference.text))

\* lines 190-195: the ingredient searched for; search is FALSE when no
\* search is made, raised is TRUE for the AttributeError of split
SearchArgument(available) ==
    IF ~Truthy(available) THEN [raised |-> FALSE, search |-> TRUE, ingredient |-> "chicken"]
    ELSE IF available.type # "string" THEN [raised |-> TRUE, search |-> FALSE, ingredient |-> ""]
    ELSE LET first_ingredient == Strip(Split(available.text, ",")[1])
         IN  [raised |-> FALSE, search |-> first_ingredient # "", ingredient |-> first_ingredient]

\* all that generate_enhanced_recipe can return for these details: their
\* title, with instructions of the text service or with their own
EnhanceResults(details) ==
    { Enhanced(details.title, instructions) :
          instructions \in EnhancedChoices \cup {details.instructions} }

\* an entry that leaves the thumbnail out
ListedWithoutThumbnail(details, enhanced) ==
    [title |-> enhanced.title, ingredients |-> details.ingredients,
     instructions |-> enhanced.instructions, thumbnail |-> "", details |-> details]

\* lines 217-222: the entry of the list.  The field details is not in the
\* dict of the source: it keeps what get_recipe_details returned for the entry
Listed(details, enhanced) ==
    [title |-> enhanced.title, ingredients |-> details.ingredients,
     instructions |-> enhanced.instructions, thumbnail |-> details.thumbnail,
     details |-> details]

\* a list that no search result fills
NoListLimit == 5 + SearchLimit

\* a list that is full one entry later
ListLimitPassed == 5 + 1

\* line 224: len(safe_and_enhanced_recipes) >= 5
ListLimit == 5

\* what the handler answers: the status, the keys of the JSON object, and
\* the values of "success" and "recipes" (<<>> without the key)
Reply(status, keys, success, recipes) ==
    [status |-> status, keys |-> keys, success |-> success, recipes |-> recipes]

NoReply == Reply(0, {}, FALSE, <<>>)

\* a call the handler made: the function and its argument; for the two
\* fetches, which make one GET each, how the GET ended
ExternalCall(fn, arg, answer) == [fn |-> fn, arg |-> arg, answer |-> answer]

(***************************************************************************)
(* The inputs of the engine.                                               *)
(***************************************************************************)
MaxCatalog == 4
MaxIngredients == 3
MaxCalls == 2

RECURSIVE DistinctSeqs(_, _)
\* the sequences of distinct elements of S, of length at most n
DistinctSeqs(S, n) ==
    IF n = 0 THEN { <<>> }
    ELSE LET shorter == DistinctSeqs(S, n - 1)
         IN  shorter \cup
             UNION { { Append(s, x) : x \in S \ { s[i] : i \in DOMAIN s } } : s \in shorter }

Catalogs ==
    { [i \in DOMAIN s |-> Pool[s[i]]] : s \in DistinctSeqs(DOMAIN Pool, MaxCatalog) }
    \cup { [i \in DOMAIN s |-> TiePool[s[i]]] : s \in DistinctSeqs(DOMAIN TiePool, MaxCatalog) }

MaxCostChoices    == {596, 1000}
MinProteinChoices == {0, 1500}
MaxFatChoices     == {1500}
ExcludedChoices   == { {}, {"poultry"} }

MaxLines == 2
MaxTags == 2
MaxRetries == 3

PreferencePool == { "none", "vegetarian", "pescetarian", "vegan", "Vegetarian" }

\* the recipes handed to generate_enhanced_recipe
RecipePool ==
    { [title |-> "Chicken Pie",
       ingredients |-> <<"1 Chicken breast", "2 tbsp BUTTER">>,
       instructions |-> <<"Fry the chicken.", "Bake.">>],
      [title |-> "Salmon Rice",
       ingredients |-> <<"200g Salmon", "2 cups Rice">>,
       instructions |-> <<"">>] }

\* the bodies posted to /meal/suggest
BodyPool ==
    { ValueBody(Absent),
      ValueBody(JsonValue("list", "[]")),
      ValueBody(JsonValue("number", "5")),
      ValueBody(JsonString("egg")),
      ObjectBody(Absent, Absent, Absent),
      ObjectBody(JsonValue("number", "5"), Absent, Absent),
      ObjectBody(Absent, Absent, JsonValue("null", "null")),
      ObjectBody(JsonString("dairy"), JsonValue("number", "5"), Absent),
      ObjectBody(Absent, JsonValue("null", "null"), JsonString("none")),
      ObjectBody(Absent, JsonValue("list", "[egg]"), Absent),
      ObjectBody(JsonString(""), JsonString("Rice, egg"), JsonString("none")),
      ObjectBody(JsonString("Dairy, ,Salmon"), JsonString("rice"), Absent),
      ObjectBody(JsonString("dairy"), JsonString(" ,rice"), JsonString("Vegetarian")),
      ObjectBody(Absent, JsonString(""), JsonString("Pescetarian")),
      ObjectBody(JsonString("gluten"), Absent, JsonString("vegetarian")),
      ObjectBody(Absent, JsonString("egg"), JsonString("vegan")) }

\* ParseBody on these bodies, evaluated once
ParsedPool == [posted \in BodyPool |-> ParseBody(posted)]

\* what TheMealDB may answer to a search
SearchAnswers ==
    { Answer("Timeout", <<>>), Answer("HTTPError", <<>>), Answer("JSONDecodeError", <<>>),
      Answer("null", <<>>), Answer("meals", ServerList), Answer("meals", OddList) }

\* what TheMealDB may answer to the lookup of a meal: the meal; for the
\* second and the third of its list also a failure or no meal
LookupAnswers(meal_id) ==
    { Answer("meals", <<meal>>) : meal \in { m \in ServerMeals : m.idMeal = meal_id } }
    \cup (IF meal_id = MealAt(2).idMeal THEN { Answer("Timeout", <<>>) } ELSE {})
    \cup (IF meal_id = MealAt(3).idMeal
          THEN { Answer("HTTPError", <<>>), Answer("null", <<>>) } ELSE {})

\* the details the handler can get, and the filters it can be asked for
DetailsPool == { DetailsOfServerMeals[meal] : meal \in ServerMeals } \ {None}
AllergyLists == { ParsedPool[posted].user_allergies : posted \in BodyPool }
Preferences == { ParsedPool[posted].dietary_preference : posted \in BodyPool }

\* line 211: check_recipe_dietary, or the AttributeError of
\* recipe_title.lower() on a title that is None
DietaryVerdict(details, preference) ==
    IF preference = "none" THEN [raised |-> FALSE, ok |-> TRUE]
    ELSE IF details.title = <<>> THEN [raised |-> TRUE, ok |-> FALSE]
    ELSE [raised |-> FALSE,
          ok |-> check_recipe_dietary(details.title[1], details.ingredients, preference)]

\* the two checks on these details and filters, evaluated once
AllergenVerdicts ==
    [d \in DetailsPool, tags \in AllergyLists |-> check_recipe_allergens(d.ingredients, tags)]
DietaryVerdicts ==
    [d \in DetailsPool, preference \in Preferences |-> DietaryVerdict(d, preference)]

VARIABLES
    \* find_best_meal: its arguments, and what each call so far returned
    data, max_cost, min_protein, max_fat, excluded_tags, max_ingredients, calls,
    \* the recipe checks: their arguments, and what each check so far returned
    recipe_title, recipe_ingredients, user_allergies, dietary_preference,
    allergen_results, dietary_results,
    \* generate_enhanced_recipe: its argument, where the call stands ("attempt",
    \* "sleep", "returned", "raised"), the loop variable attempt, the status of
    \* the local variable response (0 while it is unbound), the delays slept,
    \* the outcomes of the attempts made, and the record returned (<<>> before)
    recipe_details, llm_pc, attempt, response, sleeps, outcomes, enhanced_recipe,
    \* fetch_with_backoff: its arguments max_retries and use_mock, where the
    \* call stands, the loop variable attempt, the attempts and sleeps so far,
    \* and the class of the exception that left the function ("" if none)
    fetch_max_retries, use_mock, fetch_pc, fetch_attempt, fetch_trace, fetch_raised,
    \* suggest_recipe: the body of the request, where the handler stands, its
    \* locals (user_allergies and dietary_preference are above; next_recipe
    \* is the position of the loop in potential_recipes), the calls it made of
    \* the two fetches and of the enhancer, and its answer
    body, sr_pc, available_ingredients_str, potential_recipes, next_recipe,
    safe_and_enhanced_recipes, external_calls, reply

mealVars == <<data, max_cost, min_protein, max_fat, excluded_tags, max_ingredients, calls>>
checkVars == <<recipe_title, recipe_ingredients, user_allergies, dietary_preference,
               allergen_results, dietary_results>>
llmVars == <<recipe_details, llm_pc, attempt, response, sleeps, outcomes, enhanced_recipe>>
fetchVars == <<fetch_max_retries, use_mock, fetch_pc, fetch_attempt, fetch_trace, fetch_raised>>
suggestVars == <<body, sr_pc, available_ingredients_str, potential_recipes, next_recipe,
                 safe_and_enhanced_recipes, external_calls, reply>>
restVars == <<fetchVars, suggestVars>>
vars == <<mealVars, checkVars, llmVars, restVars>>

\* the parts of the program a specification leaves out stay as they start
IdleMeal ==
    /\ data = <<>> /\ max_cost = 0 /\ min_protein = 0 /\ max_fat = 0
    /\ excluded_tags = {} /\ max_ingredients = 0 /\ calls = <<>>
IdleCheck ==
    /\ recipe_title = "" /\ recipe_ingredients = <<>> /\ user_allergies = <<>>
    /\ dietary_preference = "none" /\ allergen_results = <<>> /\ dietary_results = <<>>
IdleLLM ==
    /\ recipe_details = [title |-> "", ingredients |-> <<>>, instructions |-> <<>>]
    /\ llm_pc = "idle" /\ attempt = 0 /\ response = 0 /\ sleeps = <<>>
    /\ outcomes = <<>> /\ enhanced_recipe = <<>>

IdleFetch ==
    /\ fetch_max_retries = 0 /\ use_mock = FALSE /\ fetch_pc = "idle"
    /\ fetch_attempt = 0 /\ fetch_trace = <<>> /\ fetch_raised = ""
IdleSuggest ==
    /\ body = ValueBody(Absent) /\ sr_pc = "idle" /\ available_ingredients_str = Absent
    /\ potential_recipes = <<>> /\ next_recipe = 0 /\ safe_and_enhanced_recipes = <<>>
    /\ external_calls = <<>> /\ reply = NoReply
IdleRest == IdleFetch /\ IdleSuggest

LineSeqs == DistinctSeqs(LinePool, MaxLines)
TagSeqs == DistinctSeqs(TagPool, MaxTags)

(***************************************************************************)
(* Spec: find_best_meal called, up to MaxCalls times, on one catalog.      *)
(***************************************************************************)
Init ==
    /\ data \in Catalogs
    /\ max_cost \in MaxCostChoices
    /\ min_protein \in MinProteinChoices
    /\ max_fat \in MaxFatChoices
    /\ excluded_tags \in ExcludedChoices
    /\ max_ingredients \in 1..MaxIngredients
    /\ calls = <<>>
    /\ IdleCheck /\ IdleLLM /\ IdleRest

\* one call of find_best_meal on the catalog as the calls before left it
Call ==
    /\ Len(calls) < MaxCalls
    /\ LET out == find_best_meal(data, max_cost, min_protein, max_fat,
                                 excluded_tags, max_ingredients)
       IN  /\ data' = out.data
           /\ calls' = Append(calls, out.ret)
    /\ UNCHANGED <<max_cost, min_protein, max_fat, excluded_tags, max_ingredients>>
    /\ UNCHANGED <<checkVars, llmVars, restVars>>

Next == Call

Spec == Init /\ [][Next]_vars

(***************************************************************************)
(* SpecAllergens: check_recipe_allergens applied to ingredient lines and   *)
(* excluded tags.                                                          *)
(***************************************************************************)
InitAllergens ==
    /\ recipe_ingredients \in LineSeqs
    /\ user_allergies \in TagSeqs
    /\ recipe_title = "" /\ dietary_preference = "none"
    /\ allergen_results = <<>> /\ dietary_results = <<>>
    /\ IdleMeal /\ IdleLLM /\ IdleRest

CheckAllergens ==
    /\ Len(allergen_results) = 0
    /\ allergen_results' =
           Append(allergen_results, check_recipe_allergens(recipe_ingredients, user_allergies))
    /\ UNCHANGED <<recipe_title, recipe_ingredients, user_allergies, dietary_preference,
                   dietary_results>>
    /\ UNCHANGED <<mealVars, llmVars, restVars>>

NextAllergens == CheckAllergens

SpecAllergens == InitAllergens /\ [][NextAllergens]_vars

(***************************************************************************)
(* SpecDietary: check_recipe_dietary applied to a title, ingredient lines  *)
(* and a preference.                                                       *)
(***************************************************************************)
InitDietary ==
    /\ recipe_title \in TitlePool
    /\ recipe_ingredients \in LineSeqs
    /\ dietary_preference \in PreferencePool
    /\ user_allergies = <<>>
    /\ allergen_results = <<>> /\ dietary_results = <<>>
    /\ IdleMeal /\ IdleLLM /\ IdleRest

CheckDietary ==
    /\ Len(dietary_results) = 0
    /\ dietary_results' =
           Append(dietary_results,
                  check_recipe_dietary(recipe_title, recipe_ingredients, dietary_preference))
    /\ UNCHANGED <<recipe_title, recipe_ingredients, user_allergies, dietary_preference,
                   allergen_results>>
    /\ UNCHANGED <<mealVars, llmVars, restVars>>

NextDietary == CheckDietary

SpecDietary == InitDietary /\ [][NextDietary]_vars

(***************************************************************************)
(* SpecEnhance: one call of generate_enhanced_recipe.                      *)
(***************************************************************************)
InitEnhance ==
    /\ recipe_details \in RecipePool
    /\ llm_pc = "attempt" /\ attempt = 0 /\ response = 0 /\ sleeps = <<>>
    /\ outcomes = <<>> /\ enhanced_recipe = <<>>
    /\ IdleMeal /\ IdleCheck /\ IdleRest

\* lines 88-117: an attempt that reaches the return statement
AttemptReturns ==
    /\ llm_pc = "attempt" /\ attempt < max_retries
    /\ \E outcome \in { o \in Outcomes : o.exception = "" } :
          /\ outcomes' = Append(outcomes, outcome.name)
          /\ response' = outcome.status_code
          /\ \E enhanced_instructions \in EnhancedChoices :
                enhanced_recipe' =
                    << Enhanced(recipe_details.title,
                                IF outcome.name = "enhanced" THEN enhanced_instructions
                                ELSE recipe_details.instructions) >>
    /\ llm_pc' = "returned"
    /\ UNCHANGED <<recipe_details, attempt, sleeps>>
    /\ UNCHANGED <<mealVars, checkVars, restVars>>

\* lines 88-133: an attempt that ends with an exception.  requests.post binds
\* response only when it returns, so after a failed post the handler sees
\* the response of the attempt before.
AttemptFails ==
    /\ llm_pc = "attempt" /\ attempt < max_retries
    /\ \E outcome \in { o \in Outcomes : o.exception # "" } :
          /\ outcomes' = Append(outcomes, outcome.name)
          /\ response' = IF outcome.status_code = 0 THEN response ELSE outcome.status_code
          /\ IF ~Caught(outcome.exception)
             THEN llm_pc' = "raised" /\ UNCHANGED enhanced_recipe
             ELSE IF attempt < max_retries - 1
             THEN llm_pc' = "sleep" /\ UNCHANGED enhanced_recipe
             ELSE /\ llm_pc' = "returned"
                  /\ enhanced_recipe' =
                         << Enhanced(recipe_details.title, recipe_details.instructions) >>
    /\ UNCHANGED <<recipe_details, attempt, sleeps>>
    /\ UNCHANGED <<mealVars, checkVars, restVars>>

\* lines 125-126 and the next turn of the loop: time.sleep(2 ** attempt) ends
Sleep ==
    /\ llm_pc = "sleep"
    /\ sleeps' = Append(sleeps, Pow2(attempt))
    /\ attempt' = attempt + 1
    /\ llm_pc' = "attempt"
    /\ UNCHANGED <<recipe_details, response, outcomes, enhanced_recipe>>
    /\ UNCHANGED <<mealVars, checkVars, restVars>>

NextEnhance == AttemptReturns \/ AttemptFails \/ Sleep

SpecEnhance == InitEnhance /\ [][NextEnhance]_vars

(***************************************************************************)
(* SpecFetch: one call of fetch_with_backoff.  The call runs in one thread, *)
(* every request has a timeout and every sleep ends, so a step that can be *)
(* taken is taken: weak fairness of the next-state relation.               *)
(***************************************************************************)
InitFetch ==
    /\ fetch_max_retries \in 0..MaxRetries
    /\ use_mock \in BOOLEAN
    /\ fetch_pc = "attempt" /\ fetch_attempt = 1 /\ fetch_trace = <<>> /\ fetch_raised = ""
    /\ IdleMeal /\ IdleCheck /\ IdleLLM /\ IdleSuggest

\* lines 52-61, 66-82: an attempt that reaches a return statement
FetchAttemptReturns ==
    /\ fetch_pc = "attempt" /\ fetch_attempt <= fetch_max_retries
    /\ \E outcome \in { o \in FetchOutcomes(use_mock) : FetchReturns(o) } :
          fetch_trace' = Append(fetch_trace, AttemptEvent(fetch_attempt, outcome.name))
    /\ fetch_pc' = "returned"
    /\ UNCHANGED <<fetch_max_retries, use_mock, fetch_attempt, fetch_raised>>
    /\ UNCHANGED <<mealVars, checkVars, llmVars, suggestVars>>

\* lines 52-99: an attempt that ends with an exception
FetchAttemptFails ==
    /\ fetch_pc = "attempt" /\ fetch_attempt <= fetch_max_retries
    /\ \E outcome \in { o \in FetchOutcomes(use_mock) : o.exception # "" } :
          /\ fetch_trace' = Append(fetch_trace, AttemptEvent(fetch_attempt, outcome.name))
          /\ IF ~FetchCaught(outcome.exception)
             THEN fetch_pc' = "raised" /\ fetch_raised' = outcome.exception
             ELSE IF fetch_attempt = fetch_max_retries
             THEN fetch_pc' = "raised" /\ fetch_raised' = "APIError"
             ELSE fetch_pc' = "sleep" /\ UNCHANGED fetch_raised
    /\ UNCHANGED <<fetch_max_retries, use_mock, fetch_attempt>>
    /\ UNCHANGED <<mealVars, checkVars, llmVars, suggestVars>>

\* lines 77-85 and the next turn of the loop: a response whose status is not
\* 200 and for which raise_for_status raises nothing; the try block ends
\* without a return and without an exception
FetchAttemptFallsThrough ==
    /\ fetch_pc = "attempt" /\ fetch_attempt <= fetch_max_retries
    /\ \E outcome \in { o \in FetchOutcomes(use_mock) : o.exception = "" /\ ~FetchReturns(o) } :
          fetch_trace' = Append(fetch_trace, AttemptEvent(fetch_attempt, outcome.name))
    /\ fetch_attempt' = fetch_attempt + 1
    /\ UNCHANGED <<fetch_max_retries, use_mock, fetch_pc, fetch_raised>>
    /\ UNCHANGED <<mealVars, checkVars, llmVars, suggestVars>>

\* lines 97-99 and the next turn of the loop: time.sleep(delay) ends
FetchSleep ==
    /\ fetch_pc = "sleep"
    /\ fetch_trace' = Append(fetch_trace, SleepEvent(fetch_attempt, BackoffDelay(fetch_attempt)))
    /\ fetch_attempt' = fetch_attempt + 1
    /\ fetch_pc' = "attempt"
    /\ UNCHANGED <<fetch_max_retries, use_mock, fetch_raised>>
    /\ UNCHANGED <<mealVars, checkVars, llmVars, suggestVars>>

\* lines 51 and 102: range(1, max_retries + 1) is exhausted
FetchLoopEnds ==
    /\ fetch_pc = "attempt" /\ fetch_attempt > fetch_max_retries
    /\ fetch_pc' = "raised" /\ fetch_raised' = "APIError"
    /\ UNCHANGED <<fetch_max_retries, use_mock, fetch_attempt, fetch_trace>>
    /\ UNCHANGED <<mealVars, checkVars, llmVars, suggestVars>>

NextFetch ==
    \/ FetchAttemptReturns \/ FetchAttemptFails \/ FetchAttemptFallsThrough
    \/ FetchSleep \/ FetchLoopEnds

SpecFetch == InitFetch /\ [][NextFetch]_vars /\ WF_vars(NextFetch)

(***************************************************************************)
(* SpecBackoff: one call of either function that retries with a backoff,   *)
(* generate_enhanced_recipe or fetch_with_backoff.                         *)
(***************************************************************************)
InitBackoff == InitEnhance \/ InitFetch

NextBackoff == NextEnhance \/ NextFetch

SpecBackoff == InitBackoff /\ [][NextBackoff]_vars

(***************************************************************************)
(* SpecSuggest: one request to POST /meal/suggest.                         *)
(***************************************************************************)
InitSuggest ==
    /\ body \in BodyPool
    /\ sr_pc = "parse" /\ available_ingredients_str = Absent
    /\ potential_recipes = <<>> /\ next_recipe = 0 /\ safe_and_enhanced_recipes = <<>>
    /\ external_calls = <<>> /\ reply = NoReply
    /\ IdleMeal /\ IdleCheck /\ IdleLLM /\ IdleFetch

\* what the steps of the handler leave alone
SuggestFrame ==
    /\ UNCHANGED <<recipe_title, recipe_ingredients, allergen_results, dietary_results>>
    /\ UNCHANGED <<mealVars, llmVars, fetchVars>>

\* the handler returns
Answers(status, keys, success, recipes) ==
    /\ reply' = Reply(status, keys, success, recipes)
    /\ sr_pc' = "done"

\* lines 176-185: the input is read, or the request is answered with 400
ReadInput ==
    /\ sr_pc = "parse"
    /\ LET parsed == ParsedPool[body]
       IN  IF ~parsed.ok
           THEN /\ Answers(400, {"success", "message"}, FALSE, <<>>)
                /\ UNCHANGED <<user_allergies, dietary_preference, available_ingredients_str>>
           ELSE /\ user_allergies' = parsed.user_allergies
                /\ dietary_preference' = parsed.dietary_preference
                /\ available_ingredients_str' = parsed.available_ingredients_str
                /\ sr_pc' = "search" /\ UNCHANGED reply
    /\ UNCHANGED <<body, potential_recipes, next_recipe, safe_and_enhanced_recipes,
                   external_calls>>
    /\ SuggestFrame

\* lines 188-198, 241-245: the search
SearchRecipes ==
    /\ sr_pc = "search"
    /\ LET argument == SearchArgument(available_ingredients_str)
       IN  IF argument.raised
           THEN /\ Answers(500, {"success", "error", "message"}, FALSE, <<>>)
                /\ UNCHANGED <<potential_recipes, next_recipe, external_calls>>
           ELSE IF ~argument.search
           THEN /\ Answers(200, {"success", "message"}, FALSE, <<>>)
                /\ UNCHANGED <<potential_recipes, next_recipe, external_calls>>
           ELSE \E answer \in SearchAnswers :
                   LET found == search_recipes_by_ingredient(answer)
                   IN  /\ external_calls' =
                              Append(external_calls,
                                     ExternalCall("search_recipes_by_ingredient",
                                                  argument.ingredient, answer.kind))
                       /\ IF found.raised
                          THEN /\ Answers(503, {"success", "message"}, FALSE, <<>>)
                               /\ UNCHANGED <<potential_recipes, next_recipe>>
                          ELSE IF Len(found.meals) = 0
                          THEN /\ Answers(200, {"success", "message"}, FALSE, <<>>)
                               /\ UNCHANGED <<potential_recipes, next_recipe>>
                          ELSE /\ potential_recipes' = found.meals
                               /\ next_recipe' = 1
                               /\ sr_pc' = "loop" /\ UNCHANGED reply
    /\ UNCHANGED <<body, user_allergies, dietary_preference, available_ingredients_str,
                   safe_and_enhanced_recipes>>
    /\ SuggestFrame

\* the loop goes on to the next recipe
Continue(calls_made) ==
    /\ external_calls' = calls_made
    /\ next_recipe' = next_recipe + 1
    /\ UNCHANGED <<sr_pc, reply, safe_and_enhanced_recipes>>

\* lines 202-224, 243-245: one turn of the loop over potential_recipes
ProcessRecipe ==
    /\ sr_pc = "loop" /\ next_recipe <= Len(potential_recipes)
    /\ LET meal_id == potential_recipes[next_recipe].idMeal
       IN  IF meal_id = "" THEN Continue(external_calls)
           ELSE \E answer \in LookupAnswers(meal_id) :
                   LET details == get_recipe_details(answer)
                       looked_up == Append(external_calls,
                                           ExternalCall("get_recipe_details", meal_id,
                                                        answer.kind))
                   IN  IF ~details.found THEN Continue(looked_up)
                       ELSE IF ~AllergenVerdicts[details, user_allergies]
                       THEN Continue(looked_up)
                       ELSE IF DietaryVerdicts[details, dietary_preference].raised
                       THEN /\ Answers(500, {"success", "error", "message"}, FALSE, <<>>)
                            /\ external_calls' = looked_up
                            /\ UNCHANGED <<next_recipe, safe_and_enhanced_recipes>>
                       ELSE IF ~DietaryVerdicts[details, dietary_preference].ok
                       THEN Continue(looked_up)
                       ELSE \E enhanced_recipe_of \in EnhanceResults(details) :
                               /\ external_calls' =
                                      Append(looked_up,
                                             ExternalCall("generate_enhanced_recipe",
                                                          meal_id, "returned"))
                               /\ safe_and_enhanced_recipes' =
                                      Append(safe_and_enhanced_recipes,
                                             Listed(details, enhanced_recipe_of))
                               /\ IF Len(safe_and_enhanced_recipes') >= ListLimit
                                  THEN sr_pc' = "respond" /\ UNCHANGED next_recipe
                                  ELSE next_recipe' = next_recipe + 1 /\ UNCHANGED sr_pc
                               /\ UNCHANGED reply
    /\ UNCHANGED <<body, user_allergies, dietary_preference, available_ingredients_str,
                   potential_recipes>>
    /\ SuggestFrame

\* lines 227-239: the loop is over
ReturnResults ==
    /\ \/ sr_pc = "respond"
       \/ sr_pc = "loop" /\ next_recipe > Len(potential_recipes)
    /\ IF Len(safe_and_enhanced_recipes) > 0
       THEN Answers(200, {"success", "recipes", "parameters", "api_info"}, TRUE,
                    safe_and_enhanced_recipes)
       ELSE Answers(200, {"success", "message", "parameters"}, FALSE, <<>>)
    /\ UNCHANGED <<body, user_allergies, dietary_preference, available_ingredients_str,
                   potential_recipes, next_recipe, safe_and_enhanced_recipes, external_calls>>
    /\ SuggestFrame

NextSuggest == ReadInput \/ SearchRecipes \/ ProcessRecipe \/ ReturnResults

SpecSuggest == InitSuggest /\ [][NextSuggest]_vars

(***************************************************************************)
(* SpecPreference: a dietary preference, handed to check_recipe_dietary    *)
(* or posted to /meal/suggest.                                             *)
(***************************************************************************)
InitPreference == InitDietary \/ InitSuggest

NextPreference == (sr_pc = "idle" /\ NextDietary) \/ NextSuggest

SpecPreference == InitPreference /\ [][NextPreference]_vars

(***************************************************************************)
(* Properties of find_best_meal.                                           *)
(***************************************************************************)
\* the lists the calls so far returned
ReturnedLists == { calls[c].meals : c \in { d \in DOMAIN calls : calls[d].kind = "list" } }

\* the combinations the calls so far returned
ReturnedMeals == UNION { { meals[i] : i \in DOMAIN meals } : meals \in ReturnedLists }

\* the members of a returned combination that carry the functional tag
Carrying(meal, tag) == { i \in DOMAIN meal.combo : tag \in meal.combo[i].functional_tags[1] }

CatalogNames == [i \in DOMAIN data |-> data[i].name]

\* C1: no returned combination has two members whose functional tags both
\* include Starch, nor two whose functional tags both include Protein, also
\* when a member carries both tags.
C1_NoDuplicateRole ==
    \A meal \in ReturnedMeals :
        /\ Cardinality(Carrying(meal, "Starch")) <= 1
        /\ Cardinality(Carrying(meal, "Protein")) <= 1

\* C2 as claimed: every returned combination reports diversity_score >= 2
\* and rounded totals within the thresholds themselves.
C2_RoundedWithinThresholds ==
    \A meal \in ReturnedMeals :
        /\ meal.diversity_score >= 2
        /\ meal.total_cost <= max_cost
        /\ meal.total_protein_g >= min_protein
        /\ meal.total_fat_g <= max_fat

\* C2 as amended: every returned combination reports diversity_score >= 2,
\* the sums over its members are within the thresholds, and the rounded
\* totals it reports are within the thresholds rounded to the same digit.
C2_WithinRoundedThresholds ==
    \A meal \in ReturnedMeals :
        /\ meal.diversity_score >= 2
        /\ total_cost_of(meal.combo) <= max_cost
        /\ total_protein_of(meal.combo) >= min_protein
        /\ total_fat_of(meal.combo) <= max_fat
        /\ meal.total_cost <= Round10(max_cost)
        /\ meal.total_protein_g >= Round10(min_protein)
        /\ meal.total_fat_g <= Round10(max_fat)

\* a returned total that rounding lifted over the cost threshold it passed
C2_Witness ==
    \E meal \in ReturnedMeals :
        /\ total_cost_of(meal.combo) <= max_cost
        /\ meal.total_cost > max_cost

\* the worked example of the specification has been computed
ExampleCalled ==
    /\ CatalogNames = <<"Rice", "Egg", "Chicken", "Tomato">>
    /\ max_cost = 1000 /\ min_protein = 1500 /\ max_fat = 1500
    /\ excluded_tags = {} /\ max_ingredients = 3
    /\ Len(calls) >= 1

NamesOf(meal) == { meal.ingredients[i] : i \in DOMAIN meal.ingredients }

\* C3 as claimed: on the worked example the first entry returned is
\* {Chicken, Tomato} or {Chicken, Rice}, with diversity_score 2.
C3_ExampleTopIsPair ==
    ExampleCalled =>
        /\ calls[1].kind = "list"
        /\ NamesOf(calls[1].meals[1]) \in { {"Chicken", "Tomato"}, {"Chicken", "Rice"} }
        /\ calls[1].meals[1].diversity_score = 2

\* C3 as amended: on the worked example the first entry returned is
\* [Rice, Chicken, Tomato], with diversity_score 3, 39.0 g protein, cost 0.93.
C3_ExampleTopIsTriple ==
    ExampleCalled =>
        /\ calls[1].kind = "list"
        /\ calls[1].meals[1].ingredients = <<"Rice", "Chicken", "Tomato">>
        /\ calls[1].meals[1].diversity_score = 3
        /\ calls[1].meals[1].total_protein_g = 3900
        /\ calls[1].meals[1].total_cost = 930

C3_Witness == ExampleCalled /\ calls[1].kind = "list" /\ Len(calls[1].meals) = 5

\* C4: a returned list has at most 5 entries, and of two adjacent entries the
\* first has the higher diversity_score, or the same and the higher
\* total_protein_g, or the same of both and a total_cost that is not higher.
C4_AtMostFiveSorted ==
    \A meals \in ReturnedLists :
        /\ Len(meals) <= 5
        /\ \A i \in 1..(Len(meals) - 1) :
              LET a == meals[i]
                  b == meals[i + 1]
              IN  \/ a.diversity_score > b.diversity_score
                  \/ /\ a.diversity_score = b.diversity_score
                     /\ a.total_protein_g > b.total_protein_g
                  \/ /\ a.diversity_score = b.diversity_score
                     /\ a.total_protein_g = b.total_protein_g
                     /\ a.total_cost <= b.total_cost

\* a full list whose order is not the order of enumeration: the last entry is
\* a pair, the first is not, and the diversity falls along the list
C4_Witness ==
    \E meals \in ReturnedLists :
        /\ Len(meals) = 5
        /\ meals[1].num_ingredients > meals[5].num_ingredients
        /\ meals[1].diversity_score > meals[5].diversity_score

\* C5: no returned combination has a member one of whose allergy tags is an
\* excluded tag.
C5_NoExcludedMember ==
    \A meal \in ReturnedMeals :
        \A i \in DOMAIN meal.combo : meal.combo[i].allergy_tags \cap excluded_tags = {}

\* a list returned from a catalog that holds an excluded ingredient
C5_Witness ==
    /\ ReturnedLists # {}
    /\ \E i \in DOMAIN data : data[i].allergy_tags \cap excluded_tags # {}

\* C6: a call on the catalog as an earlier call with the same constraints
\* left it returns what that call returned.
C6_SecondCallSame ==
    \A c, d \in DOMAIN calls : calls[c] = calls[d]

\* two calls that returned a list, the first of which attached functional
\* tags to the catalog it was given and passed over an excluded ingredient
C6_Witness ==
    /\ Len(calls) >= 2
    /\ calls[1].kind = "list"
    /\ \E i \in DOMAIN data : data[i].functional_tags # <<>>
    /\ \E i \in DOMAIN data : data[i].functional_tags = <<>>

\* the positions of the catalog the safety filter retains
SafePositions == { i \in DOMAIN data : data[i].allergy_tags \cap excluded_tags = {} }

\* the role rule of lines 117-122 on a set of catalog positions: not two
\* members tagged Starch, not two members tagged Protein but not Starch
RolesClash(S) ==
    LET tags(i) == get_functional_tags(data[i].name)
    IN  \/ \E i, j \in S : i # j /\ "Starch" \in tags(i) /\ "Starch" \in tags(j)
        \/ \E i, j \in S : /\ i # j
                           /\ "Protein" \in tags(i) /\ "Starch" \notin tags(i)
                           /\ "Protein" \in tags(j) /\ "Starch" \notin tags(j)

RECURSIVE SumOver(_, _)
\* the sum of f[i] over the positions i of S
SumOver(S, f) ==
    IF S = {} THEN 0
    ELSE LET i == CHOOSE j \in S : TRUE IN f[i] + SumOver(S \ {i}, f)

\* a set of retained positions that passes every check of the engine
Passes(S) ==
    LET cost    == [i \in DOMAIN data |-> data[i].cost_per_100g]
        protein == [i \in DOMAIN data |-> data[i].protein_g]
        fat     == [i \in DOMAIN data |-> data[i].fat_g]
    IN  /\ Cardinality(S) >= 2 /\ Cardinality(S) <= max_ingredients
        /\ ~RolesClash(S)
        /\ Cardinality(UNION { get_functional_tags(data[i].name) : i \in S }) >= 2
        /\ SumOver(S, cost) <= max_cost
        /\ SumOver(S, protein) >= min_protein
        /\ SumOver(S, fat) <= max_fat

NothingPasses == \A S \in SUBSET SafePositions : ~Passes(S)

\* C7: a call returns None, and raises nothing, when the catalog is empty,
\* when fewer than 2 ingredients survive the safety filter, when
\* max_ingredients < 2, or when no combination passes the checks.
C7_NoneWhenNothingPasses ==
    (/\ Len(calls) > 0
     /\ \/ Len(data) = 0
        \/ Cardinality(SafePositions) < 2
        \/ max_ingredients < 2
        \/ NothingPasses)
    => \A c \in DOMAIN calls : calls[c].kind = "none"

\* None returned although two or more safe ingredients were combined
C7_Witness ==
    /\ Len(calls) >= 1 /\ calls[1].kind = "none"
    /\ Cardinality(SafePositions) >= 3
    /\ max_ingredients >= 3
    /\ NothingPasses
(***************************************************************************)
(* Properties of the recipe checks.                                        *)
(***************************************************************************)
\* the keyword occurs in an ingredient line, whatever the case of the line
LineMentions(keyword) ==
    \E i \in DOMAIN recipe_ingredients : Contains(Lower(recipe_ingredients[i]), keyword)

DairyKeywords == {"milk", "cheese", "butter", "yogurt", "cream", "whey", "casein"}

\* C8: with the excluded tag "dairy", in any letter case,
\* check_recipe_allergens returns False for every ingredient list a line of
\* which contains milk, cheese, butter, yogurt, cream, whey or casein in any
\* letter case; the same for
\* every tag of ALLERGY_KEYWORD_MAP and each of its keywords.
C8_KeywordOfTagRejects ==
    \A r \in DOMAIN allergen_results :
        \A t \in DOMAIN user_allergies :
            LET tag == Lower(user_allergies[t])
            IN  /\ tag = "dairy" =>
                     \A keyword \in DairyKeywords :
                         LineMentions(keyword) => allergen_results[r] = FALSE
                /\ tag \in DOMAIN ALLERGY_KEYWORD_MAP =>
                     \A keyword \in ALLERGY_KEYWORD_MAP[tag] :
                         LineMentions(keyword) => allergen_results[r] = FALSE

\* "Dairy" excluded, "1 cup Milk" among the lines, the recipe rejected
C8_Witness ==
    /\ user_allergies = <<"Dairy">>
    /\ recipe_ingredients = <<"2 cups Rice", "1 cup Milk">>
    /\ allergen_results = <<FALSE>>

\* the meat, poultry, fish and shellfish keywords that occur in the title or
\* in an ingredient line, whatever the case
MeatFishMentioned ==
    { tag \in meat_poultry_tags \cup fish_shellfish_tags :
        Contains(Lower(recipe_title), tag) \/ LineMentions(tag) }

\* C9: 'vegetarian' rejects every recipe whose title or ingredient lines
\* mention chicken, also when chicken is the only keyword; 'pescetarian'
\* accepts a recipe whose only keyword is salmon, 'vegetarian' rejects it.
C9_ChickenAndSalmon ==
    \A r \in DOMAIN dietary_results :
        /\ (dietary_preference = "vegetarian" /\ "chicken" \in MeatFishMentioned)
              => dietary_results[r] = FALSE
        /\ (dietary_preference = "pescetarian" /\ MeatFishMentioned = {"salmon"})
              => dietary_results[r] = TRUE
        /\ (dietary_preference = "vegetarian" /\ MeatFishMentioned = {"salmon"})
              => dietary_results[r] = FALSE

\* a recipe with salmon in the title and in a line, accepted as pescetarian
C9_Witness ==
    /\ dietary_preference = "pescetarian"
    /\ recipe_title = "Salmon Rice"
    /\ recipe_ingredients = <<"200g Salmon", "2 cups Rice">>
    /\ MeatFishMentioned = {"salmon"}
    /\ dietary_results = <<TRUE>>

(***************************************************************************)
(* Properties of generate_enhanced_recipe.                                 *)
(***************************************************************************)
\* the attempts made so far all ended with an exception
AllAttemptsFailed ==
    \A i \in DOMAIN outcomes :
        \E o \in Outcomes : o.name = outcomes[i] /\ o.exception # ""

\* C10: no exception leaves generate_enhanced_recipe, whatever the outcomes
\* of its at most 3 calls of the text service: the call goes on until it
\* returns a record; the record has the title of the recipe, and the
\* instructions of the recipe when every attempt failed.
C10_EnhanceNeverRaises ==
    /\ llm_pc # "raised"
    /\ Len(outcomes) <= max_retries
    /\ llm_pc \in {"attempt", "sleep"} => attempt < max_retries
    /\ llm_pc = "returned" =>
          /\ Len(enhanced_recipe) = 1
          /\ enhanced_recipe[1].title = recipe_details.title
          /\ AllAttemptsFailed =>
                /\ Len(outcomes) = max_retries
                /\ enhanced_recipe[1].instructions = recipe_details.instructions

\* three failed attempts, the last two of them not failures of the request,
\* and the recipe returned as it was
C10_Witness ==
    /\ llm_pc = "returned"
    /\ outcomes = <<"rate limited", "no candidates", "text is a JSON list">>
    /\ sleeps = <<1, 2>>
    /\ enhanced_recipe = << Enhanced(recipe_details.title, recipe_details.instructions) >>

(***************************************************************************)
(* Properties of fetch_with_backoff.                                       *)
(***************************************************************************)
\* the positions of fetch_trace that are attempts
FetchAttempts == { i \in DOMAIN fetch_trace : fetch_trace[i].event = "attempt" }

\* the attempt at position i of fetch_trace got the data
Succeeded(i) == fetch_trace[i].outcome \in {"ok", "mock data"}

FetchEnded == fetch_pc \in {"returned", "raised"}

\* the part of C11 that holds of every state
C11_AtMostMaxRetries ==
    /\ Cardinality(FetchAttempts) <= fetch_max_retries
    /\ \A i \in FetchAttempts : fetch_trace[i].attempt <= fetch_max_retries
    /\ \A i \in FetchAttempts : Succeeded(i) => (i = Len(fetch_trace) /\ fetch_pc = "returned")
    /\ fetch_pc = "returned" => (Len(fetch_trace) > 0 /\ Succeeded(Len(fetch_trace)))
    /\ fetch_pc = "raised" =>
          /\ fetch_raised = "APIError"
          /\ Cardinality(FetchAttempts) = fetch_max_retries
          /\ \A i \in FetchAttempts : ~Succeeded(i)
    /\ fetch_pc # "raised" => fetch_raised = ""

\* C11: fetch_with_backoff ends, after at most max_retries attempts: it
\* returns at the first attempt that succeeds and makes no attempt after it,
\* and it raises APIError, and nothing else, exactly when it made max_retries
\* attempts none of which succeeded (at once when max_retries = 0).
C11_FetchEnds == [](C11_AtMostMaxRetries) /\ <>FetchEnded

\* APIError after three attempts, one of which was answered with a status
\* that is neither 200 nor an error
C11_Witness ==
    /\ fetch_pc = "raised" /\ fetch_raised = "APIError" /\ fetch_max_retries = 3
    /\ \E i \in FetchAttempts : fetch_trace[i].outcome = "no content"
    /\ \E i \in FetchAttempts : fetch_trace[i].outcome = "timeout"
    /\ fetch_trace[Len(fetch_trace)].outcome = "server error"

(***************************************************************************)
(* Properties of the backoff of both functions.                            *)
(***************************************************************************)
\* C17 for fetch_with_backoff: an attempt after the first comes right after a
\* sleep, a sleep comes right after an attempt k that returned nothing, with
\* k below max_retries, and lasts 2^(k-1) seconds.
FetchSleepsBetweenAttempts ==
    /\ \A i \in DOMAIN fetch_trace :
          (fetch_trace[i].event = "attempt" /\ fetch_trace[i].attempt > 1) =>
              /\ fetch_trace[i - 1].event = "sleep"
              /\ fetch_trace[i - 1].delay = Pow2(fetch_trace[i].attempt - 2)
    /\ \A i \in DOMAIN fetch_trace :
          fetch_trace[i].event = "sleep" =>
              /\ i > 1 /\ fetch_trace[i - 1].event = "attempt" /\ ~Succeeded(i - 1)
              /\ fetch_trace[i - 1].attempt < fetch_max_retries
              /\ fetch_trace[i].delay = Pow2(fetch_trace[i - 1].attempt - 1)
    /\ fetch_pc = "sleep" => fetch_attempt < fetch_max_retries

\* C17 for generate_enhanced_recipe: before attempt k+1 there were k sleeps,
\* the j-th of 2^(j-1) seconds, and there are never more than max_retries - 1
EnhanceSleepsBetweenAttempts ==
    /\ \A j \in DOMAIN sleeps : sleeps[j] = Pow2(j - 1)
    /\ Len(sleeps) <= max_retries - 1
    /\ Len(outcomes) > 0 => Len(sleeps) >= Len(outcomes) - 1
    /\ Len(sleeps) <= Len(outcomes)
    /\ llm_pc = "sleep" => Len(outcomes) < max_retries

\* C17: in fetch_with_backoff and in generate_enhanced_recipe, after an
\* attempt k that returned no result and is not the last one allowed, the
\* caller sleeps 2^(k-1) seconds before attempt k+1; no attempt k+1 starts
\* without that sleep and no sleep follows the last attempt allowed.
C17_SleepBetweenAttempts == FetchSleepsBetweenAttempts /\ EnhanceSleepsBetweenAttempts

(***************************************************************************)
(* Properties of suggest_recipe.                                           *)
(***************************************************************************)
Replied == sr_pc = "done"

\* the calls of the handler that are a fetch of recipes
FetchCalls ==
    { i \in DOMAIN external_calls :
        external_calls[i].fn \in {"search_recipes_by_ingredient", "get_recipe_details"} }

\* C12: a recipe fetch whose request fails with a transient failure of the
\* network makes at least one more request before its outcome is surfaced:
\* the failed request is followed by a request of the same fetch.
C12_RecipeFetchRetried ==
    \A i \in FetchCalls :
        external_calls[i].answer \in NetworkFailures =>
            /\ i < Len(external_calls)
            /\ external_calls[i + 1].fn = external_calls[i].fn
            /\ external_calls[i + 1].arg = external_calls[i].arg

\* no JSON, JSON that is no object, or an object in which one of the three
\* keys has a value that is no string
Malformed ==
    \/ body.json.type # "object"
    \/ \E value \in {body.additional_allergies, body.available_ingredients,
                     body.dietary_preference} : value.type \notin {"absent", "string"}

\* C13: a request with a malformed body is answered with status 400, and no
\* call of search_recipes_by_ingredient, get_recipe_details or
\* generate_enhanced_recipe is made for it.
C13_MalformedRejected ==
    (sr_pc # "idle" /\ Malformed) =>
        /\ external_calls = <<>>
        /\ Replied => reply.status = 400

\* C14: every answer of suggest_recipe has the key "success"; its value is
\* true exactly when the answer has a list "recipes" that is not empty; that
\* list has at most 5 entries, and what get_recipe_details returned for each
\* entry passes check_recipe_allergens for the excluded tags of the request
\* and check_recipe_dietary for its dietary preference.
C14_SuccessIffRecipes ==
    Replied =>
        /\ "success" \in reply.keys
        /\ reply.success <=> ("recipes" \in reply.keys /\ Len(reply.recipes) > 0)
        /\ reply.success =>
              /\ Len(reply.recipes) <= 5
              /\ \A i \in DOMAIN reply.recipes :
                    LET source == reply.recipes[i].details
                    IN  /\ AllergenVerdicts[source, user_allergies]
                        /\ ~DietaryVerdicts[source, dietary_preference].raised
                        /\ DietaryVerdicts[source, dietary_preference].ok

\* five recipes listed for a pescetarian, after a recipe with chicken was
\* passed over and more than five were looked up
C14_Witness ==
    /\ Replied /\ reply.success /\ Len(reply.recipes) = 5
    /\ dietary_preference = "pescetarian"
    /\ next_recipe > 6
    /\ \E i \in DOMAIN external_calls : external_calls[i].answer = "Timeout"

\* the calls of the enhancer, in the order they were made
EnhanceCall(call) == call.fn = "generate_enhanced_recipe"
EnhanceCalls == SelectSeq(external_calls, EnhanceCall)

\* C15: the i-th recipe listed has the title, the ingredients and the
\* thumbnail that get_recipe_details makes of the meal the i-th call of the
\* enhancer was for, whatever the enhancer returned.
C15_SourceFieldsKept ==
    (Replied /\ reply.success) =>
        /\ Len(reply.recipes) = Len(EnhanceCalls)
        /\ \A i \in DOMAIN reply.recipes :
              \E meal \in ServerMeals :
                  /\ meal.idMeal = EnhanceCalls[i].arg
                  /\ LET source == DetailsOfServerMeals[meal]
                     IN  /\ source.found
                         /\ reply.recipes[i].title = source.title
                         /\ reply.recipes[i].ingredients = source.ingredients
                         /\ reply.recipes[i].thumbnail = source.thumbnail

\* a list with a recipe whose instructions are new, one whose instructions
\* are its own, and one that the enhancer left without instructions
C15_Witness ==
    /\ Replied /\ reply.success
    /\ \E i \in DOMAIN reply.recipes :
          /\ reply.recipes[i].instructions # reply.recipes[i].details.instructions
          /\ reply.recipes[i].instructions # <<>>
    /\ \E i \in DOMAIN reply.recipes :
          reply.recipes[i].instructions = reply.recipes[i].details.instructions
    /\ \E i \in DOMAIN reply.recipes : reply.recipes[i].instructions = <<>>
(***************************************************************************)
(* Properties of find_best_meal: the ranking, the sizes, the catalog.      *)
(***************************************************************************)
RECURSIVE InOrder(_)
\* the positions of S in increasing order
InOrder(S) ==
    IF S = {} THEN <<>>
    ELSE LET first == CHOOSE i \in S : \A j \in S : i <= j
         IN  <<first>> \o InOrder(S \ {first})

\* the combination of the catalog positions S as the engine visits it: its
\* members in catalog order, each with its functional tags attached
ComboOf(S) == [j \in 1..Cardinality(S) |-> AttachTags(data[InOrder(S)[j]])]

\* the sets of retained positions whose combination survives
Survivors == { S \in SUBSET SafePositions : Passes(S) }

\* the entry of each survivor
Entries == [S \in Survivors |-> MakeMeal(ComboOf(S))]

\* S is enumerated before T: it is smaller, or as large and the first
\* position in which the two differ is in S
EnumeratedBefore(S, T) ==
    \/ Cardinality(S) < Cardinality(T)
    \/ /\ Cardinality(S) = Cardinality(T)
       /\ S # T
       /\ (CHOOSE i \in (S \ T) \cup (T \ S) :
              \A j \in (S \ T) \cup (T \ S) : i <= j) \in S

\* S is ranked before T, entry giving the entries of both: by the three
\* keys, and by enumeration when all three are equal
RankedBefore(entry, S, T) ==
    \/ KeyLess(entry[S], entry[T])
    \/ /\ ~KeyLess(entry[T], entry[S])
       /\ EnumeratedBefore(S, T)

\* C16: a returned list has min(5, n) entries, the i-th of which is the entry
\* of the survivor that exactly i - 1 of the n survivors are ranked before
\* (by diversity_score descending, total_protein_g descending, total_cost
\* ascending, equal keys by enumeration: smaller size first, then
\* lexicographic order of catalog positions); no survivor left out has a key
\* strictly better than that of a returned entry.
C16_FirstFiveOfRanking ==
    LET entry == Entries
        n     == Cardinality(DOMAIN entry)
    IN  \A meals \in ReturnedLists :
            /\ Len(meals) = IF n < 5 THEN n ELSE 5
            /\ \A i \in DOMAIN meals :
                  \E S \in DOMAIN entry :
                      /\ Cardinality({ T \in DOMAIN entry : RankedBefore(entry, T, S) }) = i - 1
                      /\ meals[i] = entry[S]
            /\ \A S \in DOMAIN entry :
                  (\A i \in DOMAIN meals : meals[i] # entry[S])
                  => \A i \in DOMAIN meals : ~KeyLess(entry[S], meals[i])

\* two entries with equal sort keys
SameKey(a, b) == ~KeyLess(a, b) /\ ~KeyLess(b, a)

\* a list of 5 out of more survivors, in which an entry is followed by one
\* of the same key and the same size, and an entry by one of the same key
\* and a larger size
C16_Witness ==
    \E meals \in ReturnedLists :
        /\ Cardinality(Survivors) > 5
        /\ Len(meals) = 5
        /\ \E i \in 1..4 : /\ SameKey(meals[i], meals[i + 1])
                           /\ meals[i].num_ingredients = meals[i + 1].num_ingredients
        /\ \E i \in 1..4 : /\ SameKey(meals[i], meals[i + 1])
                           /\ meals[i].num_ingredients < meals[i + 1].num_ingredients

\* C18: every returned combination is made of k distinct ingredients of the
\* catalog with 2 <= k <= max_ingredients, and its num_ingredients is k and
\* is the length of its ingredients list; none has a single ingredient.
C18_TwoToMaxDistinct ==
    \A meal \in ReturnedMeals :
        LET k == Len(meal.combo)
        IN  /\ 2 <= k /\ k <= max_ingredients
            /\ \E S \in SUBSET (DOMAIN data) : Cardinality(S) = k /\ meal.combo = ComboOf(S)
            /\ meal.num_ingredients = k
            /\ Len(meal.ingredients) = k

\* a retained ingredient that alone passes rule B and the thresholds
PassesAlone(i) ==
    /\ Cardinality(get_functional_tags(data[i].name)) >= 2
    /\ data[i].cost_per_100g <= max_cost
    /\ data[i].protein_g >= min_protein
    /\ data[i].fat_g <= max_fat

\* a list returned, with a combination of max_ingredients members, from a
\* catalog in which a retained ingredient alone meets every threshold
C18_Witness ==
    /\ \E meal \in ReturnedMeals : meal.num_ingredients = max_ingredients
    /\ \E i \in SafePositions : PassesAlone(i)

\* C20: a call leaves the catalog as it was given: the list is one of the
\* catalogs a call can start from, in which no ingredient record has the key
\* functional_tags, whether the safety filter retained the ingredient or not.
C20_CatalogUnchanged ==
    Len(calls) > 0 =>
        /\ data \in Catalogs
        /\ \A i \in DOMAIN data : data[i].functional_tags = <<>>

(***************************************************************************)
(* Properties of check_recipe_allergens: tags that are no key of the map.  *)
(***************************************************************************)
\* the excluded tags, lower-cased, that are no key of ALLERGY_KEYWORD_MAP
UnknownTags ==
    { Lower(user_allergies[t]) : t \in DOMAIN user_allergies } \ DOMAIN ALLERGY_KEYWORD_MAP

\* every excluded tag is such a tag
OnlyUnknownTags ==
    \A t \in DOMAIN user_allergies : Lower(user_allergies[t]) \in UnknownTags

\* C19: an excluded tag that, lower-cased, is no key of ALLERGY_KEYWORD_MAP
\* rejects an ingredient list when the lower-cased tag is a substring of a
\* lower-cased line, and excluded tags all of that kind reject it only then;
\* with no excluded tag every ingredient list is accepted.
C19_UnknownTagIsItsOwnKeyword ==
    \A r \in DOMAIN allergen_results :
        /\ Len(user_allergies) = 0 => allergen_results[r] = TRUE
        /\ \A tag \in UnknownTags : LineMentions(tag) => allergen_results[r] = FALSE
        /\ OnlyUnknownTags =>
              (allergen_results[r] = FALSE <=> \E tag \in UnknownTags : LineMentions(tag))

\* "shellfish" and "Salmon" excluded, neither a key: the list is rejected for
\* the line that holds "Salmon"
C19_Witness ==
    /\ user_allergies = <<"shellfish", "Salmon">>
    /\ recipe_ingredients = <<"2 cups Rice", "200g Salmon">>
    /\ allergen_results = <<FALSE>>

(***************************************************************************)
(* Properties of suggest_recipe: the loop over the candidates.             *)
(***************************************************************************)
\* the calls of get_recipe_details and of the enhancer, in the order made
LookupCall(call) == call.fn = "get_recipe_details"
LookupCalls == SelectSeq(external_calls, LookupCall)

\* the meal the server has under an id
MealOfId(meal_id) == CHOOSE meal \in ServerMeals : meal.idMeal = meal_id

\* a meal record that lacks its title or its instructions, or the measure
\* of an ingredient that is not blank
MalformedMeal(meal) ==
    \/ meal.strMeal = <<>>
    \/ meal.strInstructions = <<>>
    \/ \E i \in DOMAIN meal.pairs :
          /\ meal.pairs[i][1] = <<>>
          /\ meal.pairs[i][2] # <<>> /\ Strip(meal.pairs[i][2][1]) # ""

\* the lookup ended in a failure of the request, found no meal record, or
\* found a malformed one
LookupFailed(call) ==
    \/ call.answer # "meals"
    \/ MalformedMeal(MealOfId(call.arg))

\* the candidates of the search that have an id
WithId(meal) == meal.idMeal # ""
Candidates == SelectSeq(potential_recipes, WithId)

\* C21: a candidate whose lookup failed (a network error, an error status,
\* no meal record, a malformed meal record) is passed over: the enhancer is
\* not called for it, the loop goes on to the candidates after it (unless 5
\* recipes are listed, every candidate with an id is looked up), and a
\* request that got as far as a lookup is answered with status 200.
C21_FailedLookupSkipped ==
    /\ \A i \in DOMAIN LookupCalls :
          LookupFailed(LookupCalls[i]) =>
              \A j \in DOMAIN EnhanceCalls : EnhanceCalls[j].arg # LookupCalls[i].arg
    /\ (Replied /\ Len(LookupCalls) > 0) => reply.status = 200
    /\ (Replied /\ reply.status = 200 /\ Len(safe_and_enhanced_recipes) < 5)
          => [i \in DOMAIN LookupCalls |-> LookupCalls[i].arg]
                 = [i \in DOMAIN Candidates |-> Candidates[i].idMeal]

\* the place of the candidate with this id in the search result
PlaceOf(meal_id) ==
    CHOOSE i \in DOMAIN potential_recipes : potential_recipes[i].idMeal = meal_id

\* C22: the lookups of a request are for the candidates in the order of the
\* search result; each call of the enhancer comes right after the lookup of
\* the same candidate, whose details pass the allergen check and the dietary
\* check; the enhancer is called at most 5 times, and its 5th call is the
\* last call of the request; the recipes listed are in the order of the
\* search result.
C22_InOrderAtMostFive ==
    /\ Len(LookupCalls) <= Len(Candidates)
    /\ \A i \in DOMAIN LookupCalls : LookupCalls[i].arg = Candidates[i].idMeal
    /\ \A i \in DOMAIN external_calls :
          EnhanceCall(external_calls[i]) =>
              /\ i > 1
              /\ LookupCall(external_calls[i - 1])
              /\ external_calls[i - 1].arg = external_calls[i].arg
              /\ external_calls[i - 1].answer = "meals"
              /\ LET details == DetailsOfServerMeals[MealOfId(external_calls[i].arg)]
                 IN  /\ details.found
                     /\ AllergenVerdicts[details, user_allergies]
                     /\ ~DietaryVerdicts[details, dietary_preference].raised
                     /\ DietaryVerdicts[details, dietary_preference].ok
    /\ Len(EnhanceCalls) <= 5
    /\ Len(EnhanceCalls) = 5 => EnhanceCall(external_calls[Len(external_calls)])
    /\ Replied =>
          /\ Len(reply.recipes) <= Len(EnhanceCalls)
          /\ \A i \in DOMAIN reply.recipes : reply.recipes[i].details.id = EnhanceCalls[i].arg
          /\ \A i, j \in DOMAIN reply.recipes :
                i < j => PlaceOf(reply.recipes[i].details.id) < PlaceOf(reply.recipes[j].details.id)

\* five recipes listed, candidates passed over between them for a failed
\* lookup and for the diet, and candidates left that were never looked up
C22_Witness ==
    /\ Replied /\ Len(reply.recipes) = 5
    /\ Len(LookupCalls) > 6
    /\ Len(LookupCalls) < Len(Candidates)
    /\ dietary_preference = "pescetarian"
    /\ \E i \in DOMAIN LookupCalls : LookupFailed(LookupCalls[i])

(***************************************************************************)
(* Properties of the dietary preference.                                   *)
(***************************************************************************)
\* the preference the body of the request asks for
PostedPreference == Get(body.dietary_preference, "none")

\* the handler has read the body and gone on to the search
InputRead == sr_pc \notin {"idle", "parse"} /\ reply.status # 400

\* the candidates looked up so far whose details have a title and pass the
\* allergen check
SafeTitled ==
    { i \in DOMAIN LookupCalls :
        /\ ~LookupFailed(LookupCalls[i])
        /\ AllergenVerdicts[DetailsOfServerMeals[MealOfId(LookupCalls[i].arg)],
                            user_allergies] }

\* C23: check_recipe_dietary returns True for every preference other than
\* 'vegetarian' and 'pescetarian'; what it accepts as 'vegetarian' it accepts
\* as 'pescetarian', and what it accepts as 'pescetarian' it accepts as
\* 'none'.  suggest_recipe answers no request with 400 for the text of its
\* dietary_preference, hands that text on lower-cased, and with a text that
\* is neither mode calls the enhancer for every candidate with a title that
\* passes the allergen check.
C23_OtherPreferencesAcceptAll ==
    /\ \A r \in DOMAIN dietary_results :
          /\ dietary_preference \notin {"vegetarian", "pescetarian"}
                => dietary_results[r] = TRUE
          /\ (dietary_preference = "vegetarian" /\ dietary_results[r])
                => check_recipe_dietary(recipe_title, recipe_ingredients, "pescetarian")
          /\ (dietary_preference = "pescetarian" /\ dietary_results[r])
                => check_recipe_dietary(recipe_title, recipe_ingredients, "none")
    /\ (/\ Replied
        /\ body.json.type = "object"
        /\ body.dietary_preference.type = "string"
        /\ body.additional_allergies.type \in {"absent", "string"})
          => reply.status # 400
    /\ InputRead =>
          /\ dietary_preference = LowerOf(PostedPreference.text)
          /\ dietary_preference \notin {"vegetarian", "pescetarian"}
                => \A i \in SafeTitled :
                       \E j \in DOMAIN EnhanceCalls : EnhanceCalls[j].arg = LookupCalls[i].arg

\* 'vegan' posted: the request is answered with a list that has the
\* Chicken Pie and the Salmon Rice
C23_Witness ==
    /\ Replied /\ reply.success
    /\ PostedPreference.text = "vegan"
    /\ \E i \in DOMAIN reply.recipes : reply.recipes[i].title = <<"Chicken Pie">>
    /\ \E i \in DOMAIN reply.recipes : reply.recipes[i].title = <<"Salmon Rice">>

====
